---- MODULE Spec2Model ----
(***************************************************************************)
(* A model of the safety-gated operation controller of lovable-automation  *)
(* (src/safety.py) and of the workflows that consume it (src/api.py,       *)
(* src/remix.py, src/ui_remix.py).                                         *)
(*                                                                         *)
(* Time is the wall clock in whole seconds.  A timestamp is stored the way *)
(* the code stores it, as an ISO text, modelled by its date part and its   *)
(* time-of-day part; a calendar date is the text strftime("%Y-%m-%d")      *)
(* gives, modelled by the text "D<day number>".                            *)
(***************************************************************************)
EXTENDS Integers, Sequences, FiniteSets, TLC

VARIABLES
    state,   \* SafetyManager.state of the process's SafetyManager (a SafetyState)
    other,   \* SafetyManager.state of a second SafetyManager on the same artifact
    disk,    \* the persisted artifact session_state/safety_state.json
    now,     \* the wall clock, in milliseconds
    last,    \* what the last call did: its arguments, its result, its events
    steps,   \* number of calls and clock advances so far (bounds the exploration)
    saving   \* where each SafetyManager is in the _save_state calls of its call

vars == <<state, other, disk, now, last, steps, saving>>

(***************************************************************************)
(* Program constants                                                       *)
(***************************************************************************)
MIN_REQUEST_INTERVAL_SECONDS == 2
MAX_REQUESTS_PER_HOUR == 60
MAX_CONSECUTIVE_FAILURES == 3
CIRCUIT_BREAKER_RESET_MINUTES == 15
MAX_RETRIES == 2
MAX_OPERATIONS_PER_SESSION == 10
MAX_REMIXES_PER_DAY == 20
LOG_LIMIT == 100
REQUEST_TIMEOUT == 30
ACTION_TIMEOUT == 10000
REMIX_CREATION_TIMEOUT == 120000
NAVIGATION_TIMEOUT == 30000
DEFAULT_TIMEOUT == 30000
SecondsPerMinute == 60
SecondsPerDay == 86400
MillisPerSecond == 1000

RETRY_BACKOFF_BASE == 2
RETRY_BACKOFF_MAX == 30
DBL_MAX_EXP == 1024

(***************************************************************************)
(* Bounds of the exploration                                               *)
(***************************************************************************)
MaxSteps == 4
MaxFlowSteps == 2
MaxLogSteps == 105
MaxSafeSteps == 2
MaxLoadSteps == 3
MaxFaultSteps == 1
MaxTwoSteps == 3
MaxQuotaSteps == 3
ResponseSeconds == 1

\* Python's None, and a present optional value.
None == <<>>
Some(v) == <<v>>

\* Source project ids and new project ids the calls are made with.
ProjectIds == {"P1", "P2"}
NewIds == {"N1", "N2"}
\* "no project id": the default of pre_operation_check's project_id.
NoProject == ""

(***************************************************************************)
(* Conversions                                                             *)
(***************************************************************************)
\* Instants and durations are counted in milliseconds: the waits of the
\* browser steps are given in milliseconds, every other duration in seconds.
Seconds(n) == n * MillisPerSecond
MillisPerDay == Seconds(SecondsPerDay)

\* datetime.isoformat(): "YYYY-MM-DDTHH:MM:SS.ffffff", its date and its time
\* of day.
isoformat(t) == [date |-> t \div MillisPerDay, time |-> t % MillisPerDay]

\* datetime.fromisoformat()
fromisoformat(s) == s.date * MillisPerDay + s.time

\* datetime.strftime("%Y-%m-%d")
strftime_date(t) == "D" \o ToString(t \div MillisPerDay)

\* timedelta(minutes=m)
timedelta_minutes(m) == Seconds(m * SecondsPerMinute)

(***************************************************************************)
(* SafetyState and its persistence                                         *)
(***************************************************************************)
EmptyHistory == [p \in {} |-> ""]

SafetyStateFields ==
    {"requests_today", "remixes_today", "last_request_time", "consecutive_failures",
     "circuit_breaker_until", "last_reset_date", "request_log", "remix_history"}

\* SafetyState(): the dataclass defaults.
SafetyState ==
    [requests_today |-> 0,
     remixes_today |-> 0,
     last_request_time |-> None,
     consecutive_failures |-> 0,
     circuit_breaker_until |-> None,
     last_reset_date |-> "",
     request_log |-> <<>>,
     remix_history |-> EmptyHistory]

\* SafetyState.to_dict (asdict): the fields, by name.
to_dict(s) == [f \in SafetyStateFields |-> s[f]]

\* SafetyState.from_dict: cls(**data); a missing key takes the default, an
\* unknown key raises (reported here as "raises").
from_dict_raises(data) == ~(DOMAIN data \subseteq SafetyStateFields)
from_dict(data) ==
    LET d == [f \in SafetyStateFields |->
                 IF f \in DOMAIN data THEN data[f] ELSE SafetyState[f]]
    IN [requests_today |-> d["requests_today"],
        remixes_today |-> d["remixes_today"],
        last_request_time |-> d["last_request_time"],
        consecutive_failures |-> d["consecutive_failures"],
        circuit_breaker_until |-> d["circuit_breaker_until"],
        last_reset_date |-> d["last_reset_date"],
        request_log |-> d["request_log"],
        remix_history |-> d["remix_history"]]

\* The artifact: absent, a text that is no JSON, or a JSON object.
MissingFile == [kind |-> "missing"]
CorruptFile == [kind |-> "corrupt"]
\* A JSON text that is not an object (an array): cls(**data) raises.
JsonArrayFile == [kind |-> "json_array"]
json_dumps(d) == [kind |-> "json", object |-> d]

\* _load_state that takes the known fields of an object and ignores the others.
load_state_ignores_unknown_keys(file) ==
    IF file.kind = "json" THEN from_dict(file.object) ELSE SafetyState

\* SafetyManager._load_state
load_state(file) ==
    IF file.kind = "json" /\ ~from_dict_raises(file.object)
    THEN from_dict(file.object)
    ELSE SafetyState

\* The breaker is tripped at time t: circuit_breaker_until is set and ahead.
Tripped(s, t) ==
    s.circuit_breaker_until # None /\ t < fromisoformat(s.circuit_breaker_until[1])

\* A call runs on a world w: the manager's state, the artifact, the clock and
\* the events of the call so far (each with its time, whether the breaker
\* was tripped at that time, and last_request_time and requests_today as
\* they were at that time).
World(s, d, t) == [state |-> s, disk |-> d, now |-> t, trace |-> <<>>]
Event(w, e) ==
    [w EXCEPT !.trace = Append(@, [e |-> e, t |-> w.now,
                                   tripped |-> Tripped(w.state, w.now),
                                   last_request_time |-> w.state.last_request_time,
                                   requests_today |-> w.state.requests_today])]

\* SafetyManager._save_state
save_state(w) ==
    Event([w EXCEPT !.disk = json_dumps(to_dict(w.state))], "save")

\* _check_daily_reset clearing the remix history with the day's counters.
check_daily_reset_clears_history(w) ==
    LET today == strftime_date(w.now) IN
    IF w.state.last_reset_date # today
    THEN save_state([w EXCEPT !.state.requests_today = 0,
                              !.state.remixes_today = 0,
                              !.state.last_reset_date = today,
                              !.state.request_log = <<>>,
                              !.state.remix_history = EmptyHistory])
    ELSE w

\* _check_daily_reset forgetting the time of the last request with the day's
\* counters.
check_daily_reset_clears_last_request(w) ==
    LET today == strftime_date(w.now) IN
    IF w.state.last_reset_date # today
    THEN save_state([w EXCEPT !.state.requests_today = 0,
                              !.state.remixes_today = 0,
                              !.state.last_reset_date = today,
                              !.state.request_log = <<>>,
                              !.state.last_request_time = None])
    ELSE w

\* _check_daily_reset resetting the day's counters but keeping the log.
check_daily_reset_keeps_log(w) ==
    LET today == strftime_date(w.now) IN
    IF w.state.last_reset_date # today
    THEN save_state([w EXCEPT !.state.requests_today = 0,
                              !.state.remixes_today = 0,
                              !.state.last_reset_date = today])
    ELSE w

\* SafetyManager._check_daily_reset
check_daily_reset(w) ==
    LET today == strftime_date(w.now) IN
    IF w.state.last_reset_date # today
    THEN save_state([w EXCEPT !.state.requests_today = 0,
                              !.state.remixes_today = 0,
                              !.state.last_reset_date = today,
                              !.state.request_log = <<>>])
    ELSE w

\* __init__ that resets the day's counters whatever the date.
SafetyManager_always_resets(file, t) ==
    LET w == World(load_state(file), file, t) IN
    save_state([w EXCEPT !.state.requests_today = 0,
                         !.state.remixes_today = 0,
                         !.state.last_reset_date = strftime_date(t),
                         !.state.request_log = <<>>])

\* SafetyManager.__init__
SafetyManager(file, t) == check_daily_reset(World(load_state(file), file, t))

\* self.state.request_log[-100:]
LastEntries(log, n) ==
    IF Len(log) > n THEN SubSeq(log, Len(log) - n + 1, Len(log)) ELSE log

\* _log_request that drops the request's error text and response code.
log_request_drops_detail(w, a) ==
    LET log_entry == [timestamp |-> isoformat(w.now),
                      operation |-> a.operation,
                      endpoint |-> a.endpoint,
                      success |-> a.success,
                      error |-> None,
                      response_code |-> None]
        appended == Append(w.state.request_log, log_entry)
        kept == IF Len(appended) > LOG_LIMIT
                THEN LastEntries(appended, LOG_LIMIT) ELSE appended
    IN save_state([w EXCEPT !.state.request_log = kept])

\* _log_request that bounds the log by keeping its oldest entries.
log_request_keeps_oldest(w, a) ==
    LET log_entry == [timestamp |-> isoformat(w.now),
                      operation |-> a.operation,
                      endpoint |-> a.endpoint,
                      success |-> a.success,
                      error |-> a.error,
                      response_code |-> a.response_code]
        appended == Append(w.state.request_log, log_entry)
        kept == IF Len(appended) > LOG_LIMIT
                THEN SubSeq(appended, 1, LOG_LIMIT) ELSE appended
    IN save_state([w EXCEPT !.state.request_log = kept])

\* SafetyManager._log_request
log_request(w, a) ==
    LET log_entry == [timestamp |-> isoformat(w.now),
                      operation |-> a.operation,
                      endpoint |-> a.endpoint,
                      success |-> a.success,
                      error |-> a.error,
                      response_code |-> a.response_code]
        appended == Append(w.state.request_log, log_entry)
        kept == IF Len(appended) > LOG_LIMIT
                THEN LastEntries(appended, LOG_LIMIT) ELSE appended
    IN save_state([w EXCEPT !.state.request_log = kept])

(***************************************************************************)
(* Safety checks                                                           *)
(***************************************************************************)
\* SafetyManager.check_rate_limit
check_rate_limit(w) ==
    LET elapsed == w.now - fromisoformat(w.state.last_request_time[1]) IN
    IF w.state.last_request_time # None /\ elapsed < Seconds(MIN_REQUEST_INTERVAL_SECONDS)
    THEN [allowed |-> FALSE, reason |-> "Rate limit: wait"]
    ELSE IF w.state.requests_today >= MAX_REQUESTS_PER_HOUR
    THEN [allowed |-> FALSE, reason |-> "Hourly limit reached ("
                                        \o ToString(MAX_REQUESTS_PER_HOUR) \o " requests)"]
    ELSE [allowed |-> TRUE, reason |-> ""]

\* check_circuit_breaker with a half-open reopening: the cooldown's end clears
\* circuit_breaker_until but keeps the failure count.
check_circuit_breaker_half_open(w) ==
    IF w.state.circuit_breaker_until # None
    THEN IF w.now < fromisoformat(w.state.circuit_breaker_until[1])
         THEN [allowed |-> FALSE, reason |-> "Circuit breaker active", w |-> w]
         ELSE [allowed |-> TRUE, reason |-> "",
               w |-> save_state([w EXCEPT !.state.circuit_breaker_until = None])]
    ELSE [allowed |-> TRUE, reason |-> "", w |-> w]

\* SafetyManager.check_circuit_breaker
check_circuit_breaker(w) ==
    IF w.state.circuit_breaker_until # None
    THEN LET reset_time == fromisoformat(w.state.circuit_breaker_until[1]) IN
         IF w.now < reset_time
         THEN [allowed |-> FALSE, reason |-> "Circuit breaker active", w |-> w]
         ELSE [allowed |-> TRUE, reason |-> "",
               w |-> save_state([w EXCEPT !.state.circuit_breaker_until = None,
                                          !.state.consecutive_failures = 0])]
    ELSE [allowed |-> TRUE, reason |-> "", w |-> w]

\* check_daily_limits denying one remix late (> instead of >=).
check_daily_limits_late(s, operation) ==
    IF operation = "remix" /\ s.remixes_today > MAX_REMIXES_PER_DAY
    THEN [allowed |-> FALSE,
          reason |-> "Daily remix limit reached (" \o ToString(MAX_REMIXES_PER_DAY) \o ")"]
    ELSE [allowed |-> TRUE, reason |-> ""]

\* SafetyManager.check_daily_limits
check_daily_limits(s, operation) ==
    IF operation = "remix" /\ s.remixes_today >= MAX_REMIXES_PER_DAY
    THEN [allowed |-> FALSE,
          reason |-> "Daily remix limit reached (" \o ToString(MAX_REMIXES_PER_DAY) \o ")"]
    ELSE [allowed |-> TRUE, reason |-> ""]

\* dict.get(key): None when the key is absent.
Get(h, k) == IF k \in DOMAIN h THEN Some(h[k]) ELSE None

\* Python's truth value of an Optional[str].
Truthy(o) == o # None /\ o[1] # ""

\* SafetyManager.check_idempotency
check_idempotency(s, operation, project_id) ==
    LET existing == Get(s.remix_history, project_id) IN
    IF operation = "remix" /\ Truthy(existing)
    THEN [is_new |-> FALSE, existing |-> existing]
    ELSE [is_new |-> TRUE, existing |-> None]

\* wait_for_rate_limit sleeping one second less than the remainder.
wait_for_rate_limit_short(w) ==
    IF w.state.last_request_time # None
    THEN LET last_time == fromisoformat(w.state.last_request_time[1])
             elapsed == w.now - last_time
         IN IF elapsed < Seconds(MIN_REQUEST_INTERVAL_SECONDS)
            THEN Event([w EXCEPT !.now = @ + (Seconds(MIN_REQUEST_INTERVAL_SECONDS) - elapsed - Seconds(1))],
                       "sleep")
            ELSE w
    ELSE w

\* wait_for_rate_limit stamping last_request_time with the time it returns at.
wait_for_rate_limit_stamps(w) ==
    IF w.state.last_request_time # None
    THEN LET last_time == fromisoformat(w.state.last_request_time[1])
             elapsed == w.now - last_time
             waited == IF elapsed < Seconds(MIN_REQUEST_INTERVAL_SECONDS)
                       THEN Event([w EXCEPT !.now = @ + (Seconds(MIN_REQUEST_INTERVAL_SECONDS) - elapsed)],
                                  "sleep")
                       ELSE w
         IN [waited EXCEPT !.state.last_request_time = Some(isoformat(waited.now))]
    ELSE w

\* SafetyManager.wait_for_rate_limit
wait_for_rate_limit(w) ==
    IF w.state.last_request_time # None
    THEN LET last_time == fromisoformat(w.state.last_request_time[1])
             elapsed == w.now - last_time
         IN IF elapsed < Seconds(MIN_REQUEST_INTERVAL_SECONDS)
            THEN Event([w EXCEPT !.now = @ + (Seconds(MIN_REQUEST_INTERVAL_SECONDS) - elapsed)],
                       "sleep")
            ELSE w
    ELSE w

\* A text (an answer typed at the prompt, an error text) is the sequence of
\* its characters.
UpperCase ==
    <<"A", "B", "C", "D", "E", "F", "G", "H", "I", "J", "K", "L", "M",
      "N", "O", "P", "Q", "R", "S", "T", "U", "V", "W", "X", "Y", "Z">>
LowerCase ==
    <<"a", "b", "c", "d", "e", "f", "g", "h", "i", "j", "k", "l", "m",
      "n", "o", "p", "q", "r", "s", "t", "u", "v", "w", "x", "y", "z">>

\* str.lower()
str_lower(text) ==
    [i \in 1..Len(text) |->
        IF \E k \in DOMAIN UpperCase : UpperCase[k] = text[i]
        THEN LowerCase[CHOOSE k \in DOMAIN UpperCase : UpperCase[k] = text[i]]
        ELSE text[i]]

\* e in text
str_contains(e, text) ==
    \E i \in 1..(Len(text) - Len(e) + 1) : SubSeq(text, i, i + Len(e) - 1) = e

\* The answers typed at the prompt.
YesText == <<"y", "e", "s">>
UpperYText == <<"Y">>
UpperYesText == <<"Y", "E", "S">>
NoText == <<"n", "o">>
Answers == {YesText, UpperYText, UpperYesText, NoText}

\* The texts the prompt takes for a confirmation.
ConfirmingTexts == {<<"y", "e", "s">>, <<"y">>}

\* The answers a call can get: the prompt is not shown, and nothing is read,
\* when skip_confirmation is true.
AnswersFor(skip_confirmation) == IF skip_confirmation THEN {NoText} ELSE Answers

(***************************************************************************)
(* Pre-operation gate                                                      *)
(***************************************************************************)
\* The confirmation prompt comparing the answer as typed, without lower().
pre_operation_check_confirm_as_typed(w2, operation, skip_confirmation, answer) ==
    IF operation = "remix" /\ ~skip_confirmation
    THEN IF answer \notin ConfirmingTexts
         THEN [allowed |-> FALSE, reason |-> "User declined", w |-> Event(w2, "prompt")]
         ELSE [allowed |-> TRUE, reason |-> "", w |-> Event(w2, "prompt")]
    ELSE [allowed |-> TRUE, reason |-> "", w |-> w2]

\* pre_operation_check from the confirmation prompt on.
pre_operation_check_confirm(w2, operation, skip_confirmation, answer) ==
    IF operation = "remix" /\ ~skip_confirmation
    THEN IF str_lower(answer) \notin ConfirmingTexts
         THEN [allowed |-> FALSE, reason |-> "User declined", w |-> Event(w2, "prompt")]
         ELSE [allowed |-> TRUE, reason |-> "", w |-> Event(w2, "prompt")]
    ELSE [allowed |-> TRUE, reason |-> "", w |-> w2]

\* pre_operation_check looking at the remix history before the daily limits.
pre_operation_check_limits_history_first(w1, operation, project_id, skip_confirmation, answer) ==
    LET dl == check_daily_limits(w1.state, operation)
        idem == check_idempotency(w1.state, operation, project_id)
    IN
    IF operation = "remix" /\ project_id # NoProject /\ ~idem.is_new
    THEN [allowed |-> FALSE, reason |-> "Already remixed: " \o idem.existing[1], w |-> w1]
    ELSE IF ~dl.allowed THEN [allowed |-> FALSE, reason |-> dl.reason, w |-> w1]
    ELSE pre_operation_check_confirm(
            IF w1.state.requests_today >= MAX_OPERATIONS_PER_SESSION
            THEN Event(w1, "warn") ELSE w1,
            operation, skip_confirmation, answer)

\* pre_operation_check from the daily limits on, the rate-limit wait done.
pre_operation_check_limits(w1, operation, project_id, skip_confirmation, answer) ==
    LET dl == check_daily_limits(w1.state, operation)
        idem == check_idempotency(w1.state, operation, project_id)
    IN
    IF ~dl.allowed THEN [allowed |-> FALSE, reason |-> dl.reason, w |-> w1]
    ELSE IF operation = "remix" /\ project_id # NoProject /\ ~idem.is_new
    THEN [allowed |-> FALSE, reason |-> "Already remixed: " \o idem.existing[1], w |-> w1]
    ELSE pre_operation_check_confirm(
            IF w1.state.requests_today >= MAX_OPERATIONS_PER_SESSION
            THEN Event(w1, "warn") ELSE w1,
            operation, skip_confirmation, answer)

\* pre_operation_check once the circuit breaker has answered cb.
pre_operation_check_breaker(cb, operation, project_id, skip_confirmation, answer) ==
    IF ~cb.allowed THEN [allowed |-> FALSE, reason |-> cb.reason, w |-> cb.w]
    ELSE pre_operation_check_limits(wait_for_rate_limit(cb.w), operation, project_id,
                                    skip_confirmation, answer)

\* SafetyManager.pre_operation_check
pre_operation_check(w0, operation, project_id, skip_confirmation, answer) ==
    pre_operation_check_breaker(check_circuit_breaker(Event(w0, "pre_operation_check")),
                                operation, project_id, skip_confirmation, answer)

(***************************************************************************)
(* Post-operation handlers                                                 *)
(***************************************************************************)
\* The arguments of a record_request call.
RecordArgs(operation, endpoint, success, error, response_code) ==
    [operation |-> operation, endpoint |-> endpoint, success |-> success,
     error |-> error, response_code |-> response_code]

\* record_request tripping one failure late (> instead of >=).
record_request_trips_late(w0, a) ==
    LET w == Event(w0, "record_request")
        failures == w.state.consecutive_failures + 1
        reset_time == w.now + timedelta_minutes(CIRCUIT_BREAKER_RESET_MINUTES)
        s1 == [w.state EXCEPT !.requests_today = @ + 1,
                              !.last_request_time = Some(isoformat(w.now))]
        s2 == IF a.success
              THEN [s1 EXCEPT !.consecutive_failures = 0]
              ELSE IF failures > MAX_CONSECUTIVE_FAILURES
                   THEN [s1 EXCEPT !.consecutive_failures = failures,
                                   !.circuit_breaker_until = Some(isoformat(reset_time))]
                   ELSE [s1 EXCEPT !.consecutive_failures = failures]
    IN save_state(log_request([w EXCEPT !.state = s2], a))

\* record_request in which a success also closes the breaker.
record_request_success_reopens(w0, a) ==
    LET w == Event(w0, "record_request")
        failures == w.state.consecutive_failures + 1
        reset_time == w.now + timedelta_minutes(CIRCUIT_BREAKER_RESET_MINUTES)
        s1 == [w.state EXCEPT !.requests_today = @ + 1,
                              !.last_request_time = Some(isoformat(w.now))]
        s2 == IF a.success
              THEN [s1 EXCEPT !.consecutive_failures = 0,
                              !.circuit_breaker_until = None]
              ELSE IF failures >= MAX_CONSECUTIVE_FAILURES
                   THEN [s1 EXCEPT !.consecutive_failures = failures,
                                   !.circuit_breaker_until = Some(isoformat(reset_time))]
                   ELSE [s1 EXCEPT !.consecutive_failures = failures]
    IN save_state(log_request([w EXCEPT !.state = s2], a))

\* SafetyManager.record_request
record_request(w0, a) ==
    LET w == Event(w0, "record_request")
        failures == w.state.consecutive_failures + 1
        reset_time == w.now + timedelta_minutes(CIRCUIT_BREAKER_RESET_MINUTES)
        s1 == [w.state EXCEPT !.requests_today = @ + 1,
                              !.last_request_time = Some(isoformat(w.now))]
        s2 == IF a.success
              THEN [s1 EXCEPT !.consecutive_failures = 0]
              ELSE IF failures >= MAX_CONSECUTIVE_FAILURES
                   THEN [s1 EXCEPT !.consecutive_failures = failures,
                                   !.circuit_breaker_until = Some(isoformat(reset_time))]
                   ELSE [s1 EXCEPT !.consecutive_failures = failures]
    IN save_state(log_request([w EXCEPT !.state = s2], a))

\* dict[key] = value
Put(h, k, v) == [x \in DOMAIN h \cup {k} |-> IF x = k THEN v ELSE h[x]]

\* record_remix_success that does not persist.
record_remix_success_unsaved(w0, source_project_id, new_project_id) ==
    LET w == Event(w0, "record_remix_success") IN
    [w EXCEPT !.state.remixes_today = @ + 1,
              !.state.remix_history = Put(@, source_project_id, new_project_id)]

\* SafetyManager.record_remix_success
record_remix_success(w0, source_project_id, new_project_id) ==
    LET w == Event(w0, "record_remix_success") IN
    save_state([w EXCEPT !.state.remixes_today = @ + 1,
                         !.state.remix_history = Put(@, source_project_id, new_project_id)])

(***************************************************************************)
(* The API client (src/api.py)                                             *)
(***************************************************************************)
\* What session.request does: a response (its status; for a 200 whether its
\* body is JSON and the id in it; the text of its body where the client puts
\* it into an error message), requests.Timeout, or another
\* requests.RequestException (with the text str() gives of it, which the
\* client puts into an error message).
Response(status, json, id) ==
    [kind |-> "response", status |-> status, json |-> json, id |-> id, text |-> <<>>]
ResponseWithText(status, text) ==
    [kind |-> "response", status |-> status, json |-> FALSE, id |-> None, text |-> text]
TimeoutRaised == [kind |-> "timeout", status |-> 0, json |-> FALSE, id |-> None, text |-> <<>>]
RequestFailed == [kind |-> "error", status |-> 0, json |-> FALSE, id |-> None, text |-> <<>>]
RequestFailedWithText(text) ==
    [kind |-> "error", status |-> 0, json |-> FALSE, id |-> None, text |-> text]

\* How long the call takes.
TransportMillis(o) ==
    CASE o.kind = "response" -> Seconds(ResponseSeconds)
      [] o.kind = "timeout" -> Seconds(REQUEST_TIMEOUT)
      [] OTHER -> 0

\* LovableAPI._request
request(w0, operation_name, endpoint, o) ==
    LET w1 == Event(wait_for_rate_limit(w0), "transport")
        w2 == [w1 EXCEPT !.now = @ + TransportMillis(o)]
    IN CASE o.kind = "response" ->
              [raised |-> FALSE,
               w |-> record_request(w2, RecordArgs(operation_name, endpoint,
                                                   o.status \in {200, 201}, None, Some(o.status)))]
         [] o.kind = "timeout" ->
              [raised |-> TRUE,
               w |-> record_request(w2, RecordArgs(operation_name, endpoint, FALSE,
                                                   Some("Request timeout after 30s"), None))]
         [] OTHER ->
              [raised |-> TRUE,
               w |-> record_request(w2, RecordArgs(operation_name, endpoint, FALSE,
                                                   Some("Request failed"), None))]

\* An error text: what it starts with, what follows, and the text of the
\* response body or of the exception when the message ends with it.
Text(prefix, detail) == [prefix |-> prefix, detail |-> detail, body |-> <<>>]
TextWithBody(prefix, detail, body) == [prefix |-> prefix, detail |-> detail, body |-> body]

OperationBlockedText == <<"O", "p", "e", "r", "a", "t", "i", "o", "n", " ", "b", "l", "o", "c", "k", "e", "d">>

\* "Operation blocked" in error: the message remix_project makes for a denied
\* pre-check starts with it, and a message that quotes a response body or an
\* exception has it when the quoted text has it.
IsBlocked(error) ==
    error # None
        /\ (error[1].prefix = "Operation blocked: "
              \/ str_contains(OperationBlockedText, error[1].body))

\* RemixResult
RemixResult(success, project_id, error) ==
    [success |-> success, project_id |-> project_id, error |-> error]

\* remix_project that reports a created remix without recording it.
remix_project_response_unrecorded(r, project_id, o) ==
    IF r.raised \/ (o.status \in {200, 201} /\ ~o.json)
    THEN [result |-> RemixResult(FALSE, None,
                                 Some(TextWithBody("Remix request failed: ", o.kind,
                                                   IF r.raised THEN o.text ELSE <<>>))),
          w |-> r.w]
    ELSE IF o.status \in {200, 201}
    THEN [result |-> RemixResult(TRUE, o.id, None), w |-> r.w]
    ELSE [result |-> RemixResult(FALSE, None,
                                 Some(TextWithBody("Remix failed with status ", ToString(o.status), o.text))),
          w |-> r.w]

\* remix_project once _request has returned or raised (r).
remix_project_response(r, project_id, o) ==
    IF r.raised \/ (o.status \in {200, 201} /\ ~o.json)
    THEN [result |-> RemixResult(FALSE, None,
                                 Some(TextWithBody("Remix request failed: ", o.kind,
                                                   IF r.raised THEN o.text ELSE <<>>))),
          w |-> r.w]
    ELSE IF o.status \in {200, 201}
    THEN [result |-> RemixResult(TRUE, o.id, None),
          w |-> IF Truthy(o.id) THEN record_remix_success(r.w, project_id, o.id[1])
                ELSE r.w]
    ELSE [result |-> RemixResult(FALSE, None,
                                 Some(TextWithBody("Remix failed with status ", ToString(o.status), o.text))),
          w |-> r.w]

\* remix_project once the pre-operation check has answered pc.
remix_project_checked(pc, project_id, o) ==
    IF ~pc.allowed
    THEN [result |-> RemixResult(FALSE, None, Some(Text("Operation blocked: ", pc.reason))),
          w |-> pc.w]
    ELSE remix_project_response(
            request(pc.w, "remix", "/projects/" \o project_id \o "/remix", o),
            project_id, o)

\* LovableAPI.remix_project
remix_project(w0, project_id, skip_confirmation, answer, o) ==
    remix_project_checked(
        pre_operation_check(w0, "remix", project_id, skip_confirmation, answer),
        project_id, o)

\* LovableAPI.list_projects
list_projects(w0, o) ==
    LET r == request(wait_for_rate_limit(w0), "list_projects", "/projects", o) IN
    [found |-> ~r.raised /\ o.status = 200 /\ o.json, w |-> r.w]

\* LovableAPI.get_project
get_project(w0, project_id, o) ==
    LET r == request(wait_for_rate_limit(w0), "get_project", "/projects/" \o project_id, o) IN
    [found |-> ~r.raised /\ o.status = 200 /\ o.json, w |-> r.w]

\* LovableAPI.probe_endpoints: endpoints_to_try[:limit], one outcome each.
endpoints_to_try == <<"/me", "/user", "/profile", "/projects", "/workspaces", "/account">>

\* The number of elements of seq[:stop] for a sequence of n elements: a
\* negative stop counts from the end.
slice_stop(n, stop) ==
    IF stop >= 0 THEN (IF stop < n THEN stop ELSE n)
    ELSE (IF n + stop > 0 THEN n + stop ELSE 0)

RECURSIVE probe_from(_, _, _, _)
probe_from(w, i, limit, outcomes) ==
    IF i > slice_stop(Len(endpoints_to_try), limit) THEN w
    ELSE probe_from(request(wait_for_rate_limit(w), "probe", endpoints_to_try[i],
                            outcomes[i]).w,
                    i + 1, limit, outcomes)

probe_endpoints(w0, limit, outcomes) == probe_from(w0, 1, limit, outcomes)

(***************************************************************************)
(* The remix workflows (src/remix.py, src/ui_remix.py)                     *)
(***************************************************************************)
\* create_remix once remix_project has returned r.
create_remix_result(r) ==
    IF IsBlocked(r.result.error)
    THEN [returned |-> "None", success |-> FALSE, new_project_id |-> None,
          error |-> r.result.error, w |-> r.w]
    ELSE [returned |-> "result", success |-> r.result.success,
          new_project_id |-> r.result.project_id, error |-> r.result.error, w |-> r.w]

\* create_remix: None when the gate blocked, else a RemixWorkflowResult.
create_remix(w0, source_project_id, skip_confirmation, answer, auth_error, o1, o2) ==
    IF auth_error
    THEN [returned |-> "result", success |-> FALSE, new_project_id |-> None,
          error |-> Some(Text("Authentication failed: ", "")), w |-> w0]
    ELSE create_remix_result(
            remix_project(get_project(w0, source_project_id, o1).w,
                          source_project_id, skip_confirmation, answer, o2))

\* What the browser does in ui_remix, step by step: launch (before the try
\* statement), setup (new_context, new_page), goto, menu (the click on the
\* project menu), item (the click on the remix item), confirm (the click on
\* the dialog's button), url (the wait for the new project's URL).  A step
\* succeeds, times out (PlaywrightTimeout) or raises another exception; the
\* remix item may be missing from the menu, and ui_remix then raises
\* PlaywrightTimeout itself; the wait for the URL ends with the new project's
\* URL, or times out with the new project's URL in the page (found by the
\* fallback), or times out on the old URL.  Two timeouts are swallowed and
\* only delay the steps after them: items is the number of menu items whose
\* text was not read within 500 ms (all of them before the remix item), and
\* toggle says that the history switch of the dialog timed out.
UiOutcome(kind, step, id, items, toggle) ==
    [kind |-> kind, step |-> step, id |-> id, items |-> items, toggle |-> toggle]
UiRedirected(id, items, toggle) == UiOutcome("redirected", "url", Some(id), items, toggle)
UiLateRedirect(id, items, toggle) == UiOutcome("late_redirect", "url", Some(id), items, toggle)
UiNoRedirect(items, toggle) == UiOutcome("no_redirect", "url", None, items, toggle)
UiTimeoutAt(step, items, toggle) == UiOutcome("timeout", step, None, items, toggle)
UiErrorAt(step, items, toggle) == UiOutcome("error", step, None, items, toggle)
UiItemMissing(items) == UiOutcome("item_missing", "item", None, items, FALSE)

\* The pauses made and the timeouts swallowed before a step starts, in
\* milliseconds: page.wait_for_timeout(3000) after goto and (500) after each
\* click, inner_text(timeout=500) of each menu item that is not read, and the
\* history switch under the page's default timeout.
UiStepStart(uo) ==
    CASE uo.step \in {"launch", "setup", "goto"} -> 0
      [] uo.step = "menu" -> 3000
      [] uo.step = "item" -> 3000 + 500 + 500 * uo.items
      [] OTHER -> 3000 + 500 + 500 * uo.items + 500
                     + (IF uo.toggle THEN ACTION_TIMEOUT ELSE 0)

\* The timeout of a step, in milliseconds: the launch and the setup run
\* under Playwright's default, the clicks under page.set_default_timeout.
UiStepTimeout(step) ==
    CASE step \in {"launch", "setup"} -> DEFAULT_TIMEOUT
      [] step = "goto" -> NAVIGATION_TIMEOUT
      [] step = "url" -> REMIX_CREATION_TIMEOUT
      [] OTHER -> ACTION_TIMEOUT

\* The time from the launch of the browser to the end of the browser steps:
\* a step that succeeds or raises takes no time, one that times out takes its
\* timeout.
UiMillis(uo) ==
    CASE uo.kind \in {"timeout", "late_redirect", "no_redirect"} ->
           UiStepStart(uo) + UiStepTimeout(uo.step)
      [] OTHER -> UiStepStart(uo)

\* Whether the browser reached the new project; whether anything is recorded
\* (an exception of the launch is outside the try statement); and whether
\* ui_remix ends by raising (that exception, or the one of the finally
\* clause when it reads the name `page` that the setup has not bound).
UiSucceeded(uo) == uo.kind \in {"redirected", "late_redirect"}
UiRecords(uo) == uo.step # "launch"
UiRaises(uo) == uo.step \in {"launch", "setup"}

\* The pause of the finally clause (page.wait_for_timeout(2000)), which is
\* not made when ui_remix ends by raising.
UiClosingMillis(uo) == IF UiRaises(uo) THEN 0 ELSE 2000

\* The error text ui_remix records and returns when the browser has not
\* reached the new project.
UiErrorText(uo) ==
    CASE uo.kind = "no_redirect" -> Text("Timeout waiting for remix to complete", "")
      [] uo.kind \in {"timeout", "item_missing"} -> Text("Timeout: ", uo.step)
      [] OTHER -> Text("Error: ", uo.step)

\* ui_remix from the end of the browser steps (w2) to its return.
ui_remix_outcome(w2, project_id, uo) ==
    CASE UiSucceeded(uo) ->
           record_request(record_remix_success(w2, project_id, uo.id[1]),
                          RecordArgs("ui_remix", "/ui/remix", TRUE, None, None))
      [] ~UiRecords(uo) -> w2
      [] OTHER ->
           record_request(w2, RecordArgs("ui_remix", "/ui/remix", FALSE,
                                         Some(UiErrorText(uo).prefix), None))

\* page.wait_for_url with the pattern ui_remix makes from project_id,
\* projects/(?!{project_id})([a-f0-9-]+): the negative lookahead of the empty
\* id matches nowhere, so that the wait times out even when the page shows the
\* new project's URL at once, and the fallback reads the new id from page.url.
wait_for_url(project_id, uo) ==
    IF project_id = NoProject /\ uo.kind = "redirected"
    THEN [uo EXCEPT !.kind = "late_redirect"]
    ELSE uo

\* ui_remix in the browser, w1 being the world when the browser is launched.
ui_remix_browser(w1, project_id, uo) ==
    [ui_remix_outcome([w1 EXCEPT !.now = @ + UiMillis(uo)], project_id, uo)
        EXCEPT !.now = @ + UiClosingMillis(uo)]

\* What ui_remix returns, or that it raised, after the browser steps.
ui_remix_returned(uo, w) ==
    [returned |-> IF UiRaises(uo) THEN "raised" ELSE "result",
     success |-> UiSucceeded(uo),
     new_project_id |-> uo.id,
     error |-> IF UiSucceeded(uo) THEN None ELSE Some(UiErrorText(uo)),
     w |-> w]

\* ui_remix once the pre-operation check has answered pc.
ui_remix_checked(pc, project_id, session_exists, uo) ==
    IF ~pc.allowed
    THEN [returned |-> "None", success |-> FALSE, new_project_id |-> None,
          error |-> Some(Text("Blocked: ", pc.reason)), w |-> pc.w]
    ELSE IF ~session_exists
    THEN [returned |-> "result", success |-> FALSE, new_project_id |-> None,
          error |-> Some(Text("No session. Authenticate first.", "")), w |-> pc.w]
    ELSE ui_remix_returned(wait_for_url(project_id, uo),
                           ui_remix_browser(Event(pc.w, "ui"), project_id,
                                            wait_for_url(project_id, uo)))

\* ui_remix: None when the gate blocked, else a UIRemixResult or an exception.
ui_remix(w0, project_id, skip_confirmation, answer, session_exists, uo) ==
    ui_remix_checked(
        pre_operation_check(w0, "remix", project_id, skip_confirmation, answer),
        project_id, session_exists, uo)

(***************************************************************************)
(* The workflows when _save_state raises (the artifact cannot be written)  *)
(***************************************************************************)
\* Which _save_state calls of the record calls of a workflow raise: those
\* from the from-th to the until-th, counted from 1 in the order of the calls;
\* and what a save that raises leaves of the artifact.
SaveSchedule(from, until, leaves) == [from |-> from, until |-> until, leaves |-> leaves]
save_raises(schedule, k) == schedule.from <= k /\ k <= schedule.until

\* _save_state that raises: mkdir or the opening of the file raised and the
\* artifact is kept as it was; or the file was opened, which empties it, and
\* the writing raised, which leaves a text that is no JSON; or the text was
\* written and the closing of the file raised.
SaveLeaves == {"kept", "corrupt", "written"}
save_state_raising(w, leaves) ==
    Event([w EXCEPT !.disk = CASE leaves = "kept" -> w.disk
                               [] leaves = "written" -> json_dumps(to_dict(w.state))
                               [] OTHER -> CorruptFile],
          "save_raised")

\* record_request whose two saves are the k-th (in _log_request) and the
\* (k+1)-th: the state is changed in memory before either; a save that raises
\* ends the call.
record_request_saving(w, a, schedule, k) ==
    IF save_raises(schedule, k)
    THEN [raised |-> TRUE, k |-> k + 1,
          w |-> save_state_raising([record_request(w, a) EXCEPT
                                       !.disk = w.disk,
                                       !.trace = Event(w, "record_request").trace],
                                   schedule.leaves)]
    ELSE IF save_raises(schedule, k + 1)
    THEN [raised |-> TRUE, k |-> k + 2,
          w |-> save_state_raising([record_request(w, a) EXCEPT
                                       !.trace = SubSeq(@, 1, Len(@) - 1)],
                                   schedule.leaves)]
    ELSE [raised |-> FALSE, k |-> k + 2, w |-> record_request(w, a)]

\* record_remix_success whose save is the k-th.
record_remix_success_saving(w, source_project_id, new_project_id, schedule, k) ==
    IF save_raises(schedule, k)
    THEN [raised |-> TRUE, k |-> k + 1,
          w |-> save_state_raising(
                    [record_remix_success(w, source_project_id, new_project_id) EXCEPT
                        !.disk = w.disk,
                        !.trace = Event(w, "record_remix_success").trace],
                    schedule.leaves)]
    ELSE [raised |-> FALSE, k |-> k + 1,
          w |-> record_remix_success(w, source_project_id, new_project_id)]

\* What _request records for the outcome o of the transport call.
request_record_args(operation_name, endpoint, o) ==
    CASE o.kind = "response" ->
           RecordArgs(operation_name, endpoint, o.status \in {200, 201}, None, Some(o.status))
      [] o.kind = "timeout" ->
           RecordArgs(operation_name, endpoint, FALSE, Some("Request timeout after 30s"), None)
      [] OTHER ->
           RecordArgs(operation_name, endpoint, FALSE, Some("Request failed"), None)

\* _request: it raises when the transport call raised (re-raised after the
\* record) or when the record raised (no except clause of _request catches
\* an OSError).
request_saving(w0, operation_name, endpoint, o, schedule, k) ==
    LET rec == record_request_saving(
                   [Event(wait_for_rate_limit(w0), "transport") EXCEPT
                       !.now = @ + TransportMillis(o)],
                   request_record_args(operation_name, endpoint, o), schedule, k)
    IN [raised |-> o.kind # "response" \/ rec.raised,
        detail |-> IF rec.raised THEN "save" ELSE o.kind,
        text |-> IF rec.raised \/ o.kind = "response" THEN <<>> ELSE o.text,
        k |-> rec.k, w |-> rec.w]

\* remix_project once record_remix_success has returned or raised (s): the
\* exception is caught by "except Exception".
remix_project_saving_recorded(s, o) ==
    IF s.raised
    THEN [result |-> RemixResult(FALSE, None, Some(Text("Remix request failed: ", "save"))),
          w |-> s.w]
    ELSE [result |-> RemixResult(TRUE, o.id, None), w |-> s.w]

\* remix_project once _request has returned or raised (r).
remix_project_saving_response(r, project_id, o, schedule) ==
    IF r.raised \/ (o.status \in {200, 201} /\ ~o.json)
    THEN [result |-> RemixResult(FALSE, None,
                                 Some(TextWithBody("Remix request failed: ", r.detail, r.text))),
          w |-> r.w]
    ELSE IF o.status \in {200, 201}
    THEN IF Truthy(o.id)
         THEN remix_project_saving_recorded(
                  record_remix_success_saving(r.w, project_id, o.id[1], schedule, r.k), o)
         ELSE [result |-> RemixResult(TRUE, o.id, None), w |-> r.w]
    ELSE [result |-> RemixResult(FALSE, None,
                                 Some(TextWithBody("Remix failed with status ", ToString(o.status), o.text))),
          w |-> r.w]

\* remix_project once the pre-operation check has answered pc.
remix_project_saving_checked(pc, project_id, o, schedule, k) ==
    IF ~pc.allowed
    THEN [result |-> RemixResult(FALSE, None, Some(Text("Operation blocked: ", pc.reason))),
          w |-> pc.w]
    ELSE remix_project_saving_response(
            request_saving(pc.w, "remix", "/projects/" \o project_id \o "/remix", o,
                           schedule, k),
            project_id, o, schedule)

\* LovableAPI.remix_project, the next save being the k-th.
remix_project_saving(w0, project_id, skip_confirmation, answer, o, schedule, k) ==
    remix_project_saving_checked(
        pre_operation_check(w0, "remix", project_id, skip_confirmation, answer),
        project_id, o, schedule, k)

\* LovableAPI.get_project: "except Exception" catches what _request raises,
\* the exception of a save included, and None is returned.
get_project_saving(w0, project_id, o, schedule, k) ==
    LET r == request_saving(wait_for_rate_limit(w0), "get_project",
                            "/projects/" \o project_id, o, schedule, k)
    IN [found |-> ~r.raised /\ o.status = 200 /\ o.json, k |-> r.k, w |-> r.w]

\* create_remix once get_project has returned g.
create_remix_saving_got(g, source_project_id, skip_confirmation, answer, o2, schedule) ==
    create_remix_result(
        remix_project_saving(g.w, source_project_id, skip_confirmation, answer, o2,
                             schedule, g.k))

\* create_remix (authenticated).
create_remix_saving(w0, source_project_id, skip_confirmation, answer, o1, o2, schedule) ==
    create_remix_saving_got(get_project_saving(w0, source_project_id, o1, schedule, 1),
                            source_project_id, skip_confirmation, answer, o2, schedule)

\* ui_remix when a record call made in an except clause has returned or
\* raised (h): an exception raised there leaves ui_remix, as the one of the
\* finally clause does after an exception of the setup.
ui_remix_saving_raised(h, uo) ==
    [returned |-> IF h.raised \/ UiRaises(uo) THEN "raised" ELSE "result",
     success |-> FALSE, new_project_id |-> None,
     error |-> Some(UiErrorText(uo)), w |-> h.w]

\* ui_remix in "except Exception" after a record call of the try body raised (q).
ui_remix_saving_handler(q, schedule) ==
    LET h == record_request_saving(
                 q.w, RecordArgs("ui_remix", "/ui/remix", FALSE, Some("Error: "), None),
                 schedule, q.k)
    IN [returned |-> IF h.raised THEN "raised" ELSE "result", success |-> FALSE,
        new_project_id |-> None, error |-> Some(Text("Error: ", "save")), w |-> h.w]

\* ui_remix once the record_request of the try body has returned or raised (q).
ui_remix_saving_recorded(q, uo, schedule) ==
    IF q.raised THEN ui_remix_saving_handler(q, schedule)
    ELSE [returned |-> "result", success |-> UiSucceeded(uo),
          new_project_id |-> uo.id,
          error |-> IF UiSucceeded(uo) THEN None ELSE Some(UiErrorText(uo)),
          w |-> q.w]

\* ui_remix once record_remix_success has returned or raised (s).
ui_remix_saving_success(s, uo, schedule) ==
    IF s.raised THEN ui_remix_saving_handler(s, schedule)
    ELSE ui_remix_saving_recorded(
            record_request_saving(s.w, RecordArgs("ui_remix", "/ui/remix", TRUE, None, None),
                                  schedule, s.k),
            uo, schedule)

\* ui_remix from the end of the browser steps (w2) to the finally clause.
ui_remix_saving_outcome(w2, project_id, uo, schedule) ==
    CASE UiSucceeded(uo) ->
           ui_remix_saving_success(
               record_remix_success_saving(w2, project_id, uo.id[1], schedule, 1),
               uo, schedule)
      [] uo.kind = "no_redirect" ->
           ui_remix_saving_recorded(
               record_request_saving(
                   w2, RecordArgs("ui_remix", "/ui/remix", FALSE, Some(UiErrorText(uo).prefix), None),
                   schedule, 1),
               uo, schedule)
      [] ~UiRecords(uo) ->
           ui_remix_returned(uo, w2)
      [] OTHER ->
           ui_remix_saving_raised(
               record_request_saving(
                   w2, RecordArgs("ui_remix", "/ui/remix", FALSE, Some(UiErrorText(uo).prefix), None),
                   schedule, 1),
               uo)

\* The finally clause of ui_remix: the pause before the browser is closed.
ui_remix_saving_finally(r, uo) == [r EXCEPT !.w.now = @ + UiClosingMillis(uo)]

\* ui_remix once the pre-operation check has answered pc (a session exists).
ui_remix_saving_checked(pc, project_id, uo, schedule) ==
    IF ~pc.allowed
    THEN [returned |-> "None", success |-> FALSE, new_project_id |-> None,
          error |-> Some(Text("Blocked: ", pc.reason)), w |-> pc.w]
    ELSE ui_remix_saving_finally(
            ui_remix_saving_outcome(
                [Event(pc.w, "ui") EXCEPT !.now = @ + UiMillis(wait_for_url(project_id, uo))],
                project_id, wait_for_url(project_id, uo), schedule),
            wait_for_url(project_id, uo))

\* ui_remix
ui_remix_saving(w0, project_id, skip_confirmation, answer, uo, schedule) ==
    ui_remix_saving_checked(
        pre_operation_check(w0, "remix", project_id, skip_confirmation, answer),
        project_id, uo, schedule)

(***************************************************************************)
(* Retries (src/safety.py): get_retry_delay, should_retry, safe_operation  *)
(***************************************************************************)
\* The texts should_retry never retries on.
no_retry_errors ==
    {<<"4", "0", "3">>, <<"4", "0", "1">>, <<"4", "0", "4">>,
     <<"a", "l", "r", "e", "a", "d", "y", " ", "r", "e", "m", "i", "x", "e", "d">>,
     <<"s", "u", "p", "a", "b", "a", "s", "e">>}

\* The float power base ** exponent of a base of 2.0 and an exponent >= 0: it
\* raises OverflowError when the result is not a finite double, that is from
\* the exponent DBL_MAX_EXP on.
float_pow_raises(exponent) == exponent >= DBL_MAX_EXP

\* min(base ** exponent, cap) of a power that does not raise: the power is
\* followed factor by factor until it is complete or has passed the cap.
RECURSIVE min_pow_from(_, _, _, _, _)
min_pow_from(acc, k, base, exponent, cap) ==
    IF acc >= cap THEN cap
    ELSE IF k = exponent THEN acc
    ELSE min_pow_from(acc * base, k + 1, base, exponent, cap)

\* SafetyManager.get_retry_delay: whether it raises, and what it returns.
get_retry_delay_raises(attempt) == float_pow_raises(attempt)
get_retry_delay(attempt) ==
    min_pow_from(1, 0, RETRY_BACKOFF_BASE, attempt, RETRY_BACKOFF_MAX)

\* should_retry looking for the markers in the text as given, without lower().
should_retry_case_sensitive(attempt, error) ==
    IF attempt >= MAX_RETRIES THEN FALSE
    ELSE IF error # None /\ error[1] # <<>>
            /\ \E e \in no_retry_errors : str_contains(e, error[1])
    THEN FALSE
    ELSE TRUE

\* SafetyManager.should_retry: error is None or Some(text).
should_retry(attempt, error) ==
    IF attempt >= MAX_RETRIES THEN FALSE
    ELSE IF error # None /\ error[1] # <<>>
            /\ \E e \in no_retry_errors : str_contains(e, str_lower(error[1]))
    THEN FALSE
    ELSE TRUE

\* What the function wrapped by safe_operation does when it is called: it
\* returns a result (its success, project_id and error attributes), returns
\* None, or raises an exception (its text).
FuncReturned(success, project_id, error) ==
    [kind |-> "returned", success |-> success, project_id |-> project_id, error |-> error]
FuncReturnedNone ==
    [kind |-> "none", success |-> FALSE, project_id |-> "", error |-> None]
FuncRaised(text) ==
    [kind |-> "raised", success |-> FALSE, project_id |-> "", error |-> Some(text)]

NoResultText == <<"N", "o", " ", "r", "e", "s", "u", "l", "t">>

RECURSIVE safe_operation_attempt(_, _, _, _, _)
RECURSIVE safe_operation_except(_, _, _, _, _)

\* safe_operation's wrapper after func has returned or raised outcomes[attempt + 1].
safe_operation_outcome(w1, operation_name, project_id, attempt, outcomes) ==
    LET o == outcomes[attempt + 1] IN
    CASE o.kind = "returned" ->
           [returned |-> "result",
            w |-> IF o.success /\ operation_name = "remix"
                  THEN record_remix_success(
                          record_request(w1, RecordArgs(operation_name, "/" \o operation_name,
                                                        TRUE, o.error, None)),
                          project_id, o.project_id)
                  ELSE record_request(w1, RecordArgs(operation_name, "/" \o operation_name,
                                                     o.success, o.error, None))]
      [] o.kind = "none" ->
           [returned |-> "None",
            w |-> record_request(w1, RecordArgs(operation_name, "/" \o operation_name,
                                                FALSE, Some(NoResultText), None))]
      [] OTHER ->
           safe_operation_except(
               record_request(w1, RecordArgs(operation_name, "/" \o operation_name,
                                             FALSE, o.error, None)),
               operation_name, project_id, attempt, outcomes)

\* safe_operation's wrapper in the except clause, the failure recorded.
safe_operation_except(w2, operation_name, project_id, attempt, outcomes) ==
    IF should_retry(attempt, outcomes[attempt + 1].error)
    THEN safe_operation_attempt(
            Event([w2 EXCEPT !.now = @ + Seconds(get_retry_delay(attempt))], "retry_sleep"),
            operation_name, project_id, attempt + 1, outcomes)
    ELSE [returned |-> "None", w |-> w2]

\* The wrapper's loop running over range(MAX_RETRIES): one attempt fewer.
safe_operation_attempt_short(w, operation_name, project_id, attempt, outcomes) ==
    IF attempt >= MAX_RETRIES THEN [returned |-> "None", w |-> w]
    ELSE safe_operation_outcome(
            [Event(w, "attempt") EXCEPT !.now = @ + Seconds(ResponseSeconds)],
            operation_name, project_id, attempt, outcomes)

\* safe_operation's wrapper: the loop "for attempt in range(MAX_RETRIES + 1)".
safe_operation_attempt(w, operation_name, project_id, attempt, outcomes) ==
    IF attempt > MAX_RETRIES THEN [returned |-> "None", w |-> w]
    ELSE safe_operation_outcome(
            [Event(w, "attempt") EXCEPT !.now = @ + Seconds(ResponseSeconds)],
            operation_name, project_id, attempt, outcomes)

\* safe_operation's wrapper once the pre-operation check has answered pc.
safe_operation_checked(pc, operation_name, project_id, outcomes) ==
    IF ~pc.allowed THEN [returned |-> "None", w |-> pc.w]
    ELSE safe_operation_attempt(wait_for_rate_limit(pc.w), operation_name, project_id,
                                0, outcomes)

\* safe_operation(operation_name)(func)(project_id, skip_confirmation=...):
\* the wrapper constructs a SafetyManager of its own on the artifact.
safe_operation(file, t, operation_name, project_id, skip_confirmation, answer, outcomes) ==
    safe_operation_checked(
        pre_operation_check(SafetyManager(file, t), operation_name, project_id,
                            skip_confirmation, answer),
        operation_name, project_id, outcomes)

(***************************************************************************)
(* The artifacts a process may find when it starts                         *)
(***************************************************************************)
\* The process starts at 23:45:00 of day 1.
StartTime == 2 * MillisPerDay - timedelta_minutes(CIRCUIT_BREAKER_RESET_MINUTES)

\* Sources remixed in earlier sessions, and the ids their remixes got.
PastIds(n) == {"H" \o ToString(i) : i \in 1..n}
PastHistory(n) == [p \in PastIds(n) |-> "R" \o p]

\* The log of n earlier requests, MIN_REQUEST_INTERVAL_SECONDS apart, the last
\* at time t, the last `failures` of them failed.
PastLog(n, t, failures) ==
    [i \in 1..n |->
        [timestamp |-> isoformat(t - Seconds(MIN_REQUEST_INTERVAL_SECONDS) * (n - i)),
         operation |-> "remix",
         endpoint |-> "/projects/H" \o ToString(i) \o "/remix",
         success |-> (i <= n - failures),
         error |-> None,
         response_code |-> IF i <= n - failures THEN Some(200) ELSE Some(500)]]

\* The artifact a session leaves that made `requests` requests, the last at
\* time t, and `remixes` remixes on the day of t.
Artifact(requests, remixes, t, failures) ==
    json_dumps(to_dict(
        [requests_today |-> requests,
         remixes_today |-> remixes,
         last_request_time |-> Some(isoformat(t)),
         consecutive_failures |-> failures,
         circuit_breaker_until |-> None,
         last_reset_date |-> strftime_date(t),
         request_log |-> LastEntries(PastLog(requests, t, failures), LOG_LIMIT),
         remix_history |-> PastHistory(remixes)]))

\* No artifact; yesterday's session (7 requests, 4 remixes, the last two
\* requests failed); today's session, one second ago (99 requests, 19 remixes).
Artifacts ==
    {MissingFile,
     Artifact(7, 4, StartTime - MillisPerDay, 2),
     Artifact(LOG_LIMIT - 1, MAX_REMIXES_PER_DAY - 1, StartTime - Seconds(1), 0)}

(***************************************************************************)
(* The state machine of the gate: any sequence of calls of its methods     *)
(***************************************************************************)
\* What a call leaves in `last`: its name, what identifies it among the calls
\* of that name, and its events.
Call(action, what, w) == [action |-> action, what |-> what, trace |-> w.trace]

\* Where a SafetyManager is in the saves of its call: in no call (idle);
\* with n _save_state calls of the call still to make (saving); or in one of
\* them, the artifact opened, which emptied it, and the text not yet written
\* (opened), n saves to make after it.  While it has the artifact open, clean
\* says that the artifact holds no text another process wrote since.
Instances == {"first", "second"}
Idle == [at |-> "idle", saves |-> 0, clean |-> TRUE]
Saving(n) == IF n = 0 THEN Idle ELSE [at |-> "saving", saves |-> n, clean |-> TRUE]
Opened(n) == [at |-> "opened", saves |-> n, clean |-> TRUE]

\* A call of the one process, taken whole: no other process runs beside it.
Commit(w, l) ==
    /\ state' = w.state
    /\ other' = other
    /\ disk' = w.disk
    /\ now' = w.now
    /\ last' = l
    /\ steps' = steps + 1
    /\ saving' = saving

Here == World(state, disk, now)

Init ==
    \E file \in Artifacts :
        LET w == SafetyManager(file, StartTime) IN
        /\ state = w.state
        /\ other = w.state
        /\ disk = w.disk
        /\ now = w.now
        /\ last = Call("init", <<>>, w)
        /\ steps = 0
        /\ saving = [instance \in Instances |-> Idle]

\* The clock moves on: by a second, or to one second before a cooldown ends.
AdvanceSteps == {Seconds(1), timedelta_minutes(CIRCUIT_BREAKER_RESET_MINUTES) - Seconds(1)}

Advance ==
    /\ steps < MaxSteps
    /\ \E d \in AdvanceSteps :
        Commit([Here EXCEPT !.now = @ + d], Call("advance", <<>>, Here))

\* The operation kinds and project ids pre_operation_check is called with.
Operations == {"remix", "get_project"}

PreOperationCheck ==
    /\ steps < MaxSteps
    /\ \E operation \in Operations, project_id \in ProjectIds \cup {NoProject},
          skip_confirmation \in BOOLEAN :
       \E answer \in AnswersFor(skip_confirmation) :
        LET r == pre_operation_check(Here, operation, project_id, skip_confirmation, answer)
        IN Commit(r.w, Call("pre_operation_check",
                            [allowed |-> r.allowed, reason |-> r.reason], r.w))

\* The arguments record_request is called with: a remix answered 200, a remix
\* answered 500, a timed out request, a browser remix.
RecordCalls ==
    {RecordArgs("remix", "/projects/P1/remix", TRUE, None, Some(200)),
     RecordArgs("remix", "/projects/P1/remix", FALSE, None, Some(500)),
     RecordArgs("get_project", "/projects/P1", FALSE, Some("Request timeout after 30s"), None)}

RecordRequest ==
    /\ steps < MaxSteps
    /\ \E a \in RecordCalls :
        LET w == record_request(Here, a)
        IN Commit(w, Call("record_request", a, w))

RecordRemixSuccess ==
    /\ steps < MaxSteps
    /\ \E source_project_id \in ProjectIds, new_project_id \in NewIds :
        LET w == record_remix_success(Here, source_project_id, new_project_id)
        IN Commit(w, Call("record_remix_success",
                          [source_project_id |-> source_project_id,
                           new_project_id |-> new_project_id], w))

\* The process ends and a new one constructs its SafetyManager on the artifact.
Restart ==
    /\ steps < MaxSteps
    /\ LET w == SafetyManager(disk, now)
       IN Commit(w, Call("restart", <<>>, w))

Next ==
    \/ Advance
    \/ PreOperationCheck
    \/ RecordRequest
    \/ RecordRemixSuccess
    \/ Restart

Spec == Init /\ [][Next]_vars

(***************************************************************************)
(* The state machine of the workflows: a process that only calls the API   *)
(* client and the remix workflows                                          *)
(***************************************************************************)
\* The project the workflows are called for, and the id the service gives
\* its remix: one it has not given before.
FlowProjectIds == {"P1", NoProject}
NewIdFor(project_id) == IF project_id \in DOMAIN state.remix_history THEN "N2" ELSE "N1"

\* skip_confirmation and the answer to the prompt.
Confirmations == {<<TRUE, NoText>>, <<FALSE, UpperYText>>, <<FALSE, NoText>>}

\* The calls of a remix workflow: its project id, and skip_confirmation and
\* the answer.  The empty id is what interactive_remix passes on, with
\* skip_confirmation False, when an empty line is typed.
FlowCalls ==
    {<<project_id, c>> : project_id \in FlowProjectIds \ {NoProject}, c \in Confirmations}
        \cup {<<NoProject, <<FALSE, UpperYText>>>>}

\* The text of a connection error raised by session.request.
TunnelText ==
    <<"T", "u", "n", "n", "e", "l", ":", " ", "4", "0", "3", " ",
      "O", "p", "e", "r", "a", "t", "i", "o", "n", " ", "b", "l", "o", "c", "k", "e", "d">>

\* The body of a 403 answer of the service.
PolicyText == <<"O", "p", "e", "r", "a", "t", "i", "o", "n", " ", "b", "l", "o", "c", "k", "e", "d", " ", "b", "y", " ", "p", "o", "l", "i", "c", "y">>

RemixOutcomes(project_id) ==
    {Response(200, TRUE, Some(NewIdFor(project_id))),
     Response(200, TRUE, None),
     Response(500, TRUE, None),
     ResponseWithText(403, PolicyText),
     TimeoutRaised,
     RequestFailedWithText(TunnelText)}

GetOutcomes == {Response(200, TRUE, None), Response(404, FALSE, None), TimeoutRaised}

UiOutcomes(project_id) ==
    {UiRedirected(NewIdFor(project_id), 0, FALSE),
     UiLateRedirect(NewIdFor(project_id), 1, TRUE),
     UiNoRedirect(0, FALSE),
     UiTimeoutAt("goto", 0, FALSE), UiTimeoutAt("item", 1, FALSE),
     UiItemMissing(1), UiErrorAt("menu", 0, FALSE),
     UiTimeoutAt("setup", 0, FALSE), UiTimeoutAt("launch", 0, FALSE)}

ProbeLimit == 3
\* --limit as the command line gives it: the default, and a negative number
\* (endpoints_to_try[:-5] is the first endpoint).
ProbeLimits == {ProbeLimit, -5}
ProbeOutcomes ==
    {[i \in 1..ProbeLimit |-> Response(200, TRUE, None)],
     [i \in 1..ProbeLimit |-> Response(404, FALSE, None)],
     [i \in 1..ProbeLimit |-> IF i = 1 THEN Response(200, TRUE, None) ELSE RequestFailed]}

FlowAdvance ==
    /\ steps < MaxFlowSteps
    /\ \E d \in AdvanceSteps :
        Commit([Here EXCEPT !.now = @ + d], Call("advance", <<>>, Here))

FlowRestart ==
    /\ steps < MaxFlowSteps
    /\ LET w == SafetyManager(disk, now)
       IN Commit(w, Call("restart", <<>>, w))

RemixProject ==
    /\ steps < MaxFlowSteps
    /\ \E call \in FlowCalls :
       \E o \in RemixOutcomes(call[1]) :
        LET project_id == call[1]
            c == call[2]
            r == remix_project(Here, project_id, c[1], c[2], o)
        IN Commit(r.w, Call("remix_project",
                            [returned |-> "result", success |-> r.result.success,
                             new_project_id |-> r.result.project_id,
                             error |-> r.result.error], r.w))

UiRemix ==
    /\ steps < MaxFlowSteps
    /\ \E call \in FlowCalls, session_exists \in BOOLEAN :
       \E uo \in UiOutcomes(call[1]) :
        LET project_id == call[1]
            c == call[2]
            r == ui_remix(Here, project_id, c[1], c[2], session_exists, uo)
        IN Commit(r.w, Call("ui_remix",
                            [returned |-> r.returned, success |-> r.success,
                             new_project_id |-> r.new_project_id,
                             error |-> r.error], r.w))

CreateRemix ==
    /\ steps < MaxFlowSteps
    /\ \E call \in FlowCalls, auth_error \in BOOLEAN, o1 \in GetOutcomes :
       \E o2 \in RemixOutcomes(call[1]) :
        LET source_project_id == call[1]
            c == call[2]
            r == create_remix(Here, source_project_id, c[1], c[2], auth_error, o1, o2)
        IN Commit(r.w, Call("create_remix",
                            [returned |-> r.returned, success |-> r.success,
                             new_project_id |-> r.new_project_id,
                             error |-> r.error], r.w))

GetProject ==
    /\ steps < MaxFlowSteps
    /\ \E project_id \in FlowProjectIds, o \in GetOutcomes :
        LET r == get_project(Here, project_id, o)
        IN Commit(r.w, Call("get_project", [found |-> r.found], r.w))

ListProjects ==
    /\ steps < MaxFlowSteps
    /\ \E o \in GetOutcomes :
        LET r == list_projects(Here, o)
        IN Commit(r.w, Call("list_projects", [found |-> r.found], r.w))

ProbeEndpoints ==
    /\ steps < MaxFlowSteps
    /\ \E outcomes \in ProbeOutcomes, limit \in ProbeLimits :
        LET w == probe_endpoints(Here, limit, outcomes)
        IN Commit(w, Call("probe_endpoints", <<>>, w))

NextFlow ==
    \/ FlowAdvance
    \/ FlowRestart
    \/ RemixProject
    \/ UiRemix
    \/ CreateRemix
    \/ GetProject
    \/ ListProjects
    \/ ProbeEndpoints

SpecFlow == Init /\ [][NextFlow]_vars

(***************************************************************************)
(* The state machine of a remixing session: one process whose only calls   *)
(* are remix_project and ui_remix, for any project, confirmation skipped   *)
(***************************************************************************)
QuotaRemixProject ==
    /\ steps < MaxQuotaSteps
    /\ \E project_id \in ProjectIds :
       \E o \in RemixOutcomes(project_id) :
        LET r == remix_project(Here, project_id, TRUE, NoText, o)
        IN Commit(r.w, Call("remix_project",
                            [returned |-> "result", success |-> r.result.success,
                             new_project_id |-> r.result.project_id,
                             error |-> r.result.error], r.w))

QuotaUiRemix ==
    /\ steps < MaxQuotaSteps
    /\ \E project_id \in ProjectIds :
       \E uo \in UiOutcomes(project_id) :
        LET r == ui_remix(Here, project_id, TRUE, NoText, TRUE, uo)
        IN Commit(r.w, Call("ui_remix",
                            [returned |-> r.returned, success |-> r.success,
                             new_project_id |-> r.new_project_id,
                             error |-> r.error], r.w))

NextQuota ==
    \/ QuotaRemixProject
    \/ QuotaUiRemix

SpecQuota == Init /\ [][NextQuota]_vars

(***************************************************************************)
(* The state machine of a long session: a process that keeps asking for a  *)
(* project through the API client                                          *)
(***************************************************************************)
RepeatGetProject ==
    /\ steps < MaxLogSteps
    /\ LET r == get_project(Here, "P1", Response(200, TRUE, None))
       IN Commit(r.w, Call("get_project", [found |-> r.found], r.w))

NextLog == RepeatGetProject

SpecLog == Init /\ [][NextLog]_vars

(***************************************************************************)
(* The state machine of decorated operations: a process that only calls a  *)
(* function wrapped by safe_operation("remix")                             *)
(***************************************************************************)
\* The texts of the exceptions the wrapped function raises.
TimeoutText == <<"t", "i", "m", "e", "o", "u", "t">>
UnauthorizedText ==
    <<"4", "0", "1", " ", "U", "n", "a", "u", "t", "h", "o", "r", "i", "z", "e", "d">>
SupabaseText == <<"S", "u", "p", "a", "b", "a", "s", "e", " ", "d", "o", "w", "n">>
ServerErrorText == <<"5", "0", "0">>

\* What the wrapped function does at each of its (at most three) calls.
FuncOutcomes ==
    {[i \in 1..(MAX_RETRIES + 1) |-> FuncReturned(TRUE, "N1", None)],
     [i \in 1..(MAX_RETRIES + 1) |-> FuncReturned(FALSE, "", Some(ServerErrorText))],
     [i \in 1..(MAX_RETRIES + 1) |-> FuncReturnedNone],
     [i \in 1..(MAX_RETRIES + 1) |-> FuncRaised(TimeoutText)],
     [i \in 1..(MAX_RETRIES + 1) |-> FuncRaised(UnauthorizedText)],
     [i \in 1..(MAX_RETRIES + 1) |-> FuncRaised(<<>>)],
     [i \in 1..(MAX_RETRIES + 1) |->
         IF i = 1 THEN FuncRaised(TimeoutText) ELSE FuncReturned(TRUE, "N1", None)],
     [i \in 1..(MAX_RETRIES + 1) |->
         IF i = 1 THEN FuncRaised(TimeoutText) ELSE FuncRaised(SupabaseText)]}

SafeAdvance ==
    /\ steps < MaxSafeSteps
    /\ \E d \in AdvanceSteps :
        Commit([Here EXCEPT !.now = @ + d], Call("advance", <<>>, Here))

\* The wrapper works on a SafetyManager of its own: the process's manager
\* (state) is left as it was, the artifact is rewritten.
SafeOperation ==
    /\ steps < MaxSafeSteps
    /\ \E call \in FlowCalls, outcomes \in FuncOutcomes :
        LET project_id == call[1]
            c == call[2]
            r == safe_operation(disk, now, "remix", project_id, c[1], c[2], outcomes)
        IN /\ state' = state
           /\ other' = other
           /\ disk' = r.w.disk
           /\ now' = r.w.now
           /\ last' = Call("safe_operation",
                           [returned |-> r.returned, project_id |-> project_id,
                            skip_confirmation |-> c[1], answer |-> c[2],
                            outcomes |-> outcomes], r.w)
           /\ steps' = steps + 1
           /\ saving' = saving

NextSafe ==
    \/ SafeAdvance
    \/ SafeOperation

SpecSafe == Init /\ [][NextSafe]_vars

(***************************************************************************)
(* The state machine of loading: processes that start on whatever artifact *)
(* they find, and record requests                                          *)
(***************************************************************************)
\* An artifact with a key that is no field of SafetyState, around the state
\* of a session of today (2 requests, both failed, 1 remix).
UnknownKeyFile ==
    json_dumps([k \in SafetyStateFields \cup {"version"} |->
                   IF k = "version" THEN "1"
                   ELSE Artifact(2, 1, StartTime - Seconds(1), 2).object[k]])

\* Artifacts with only some of the fields of SafetyState: none, and three
\* written today.
EmptyObjectFile == json_dumps([k \in {} |-> ""])
PartialFile ==
    json_dumps([consecutive_failures |-> 2,
                remix_history |-> [p \in {"P1"} |-> "N1"],
                last_reset_date |-> strftime_date(StartTime)])

LoadArtifacts ==
    Artifacts \cup {CorruptFile, JsonArrayFile, UnknownKeyFile, EmptyObjectFile, PartialFile}

InitLoad ==
    \E file \in LoadArtifacts :
        LET w == SafetyManager(file, StartTime) IN
        /\ state = w.state
        /\ other = w.state
        /\ disk = w.disk
        /\ now = w.now
        /\ last = Call("construct", [file |-> file], w)
        /\ steps = 0
        /\ saving = [instance \in Instances |-> Idle]

LoadAdvance ==
    /\ steps < MaxLoadSteps
    /\ \E d \in AdvanceSteps :
        Commit([Here EXCEPT !.now = @ + d], Call("advance", <<>>, Here))

\* A process starts and constructs its SafetyManager on the artifact it finds:
\* the one the last process left, or another one put in its place.
Construct ==
    /\ steps < MaxLoadSteps
    /\ \E file \in LoadArtifacts \cup {disk} :
        LET w == SafetyManager(file, now)
        IN Commit(w, Call("construct", [file |-> file], w))

\* cmd_reset deleting the artifact whether or not --confirm was given.
cmd_reset_unconfirmed(w0, confirm) ==
    LET w == SafetyManager(w0.disk, w0.now) IN
    [code |-> 0,
     w |-> IF w.disk.kind # "missing"
           THEN Event([w EXCEPT !.disk = MissingFile], "unlink")
           ELSE w]

\* cmd_reset (src/cli.py): without --confirm it warns and returns 1; with it,
\* it gets the process's SafetyManager (constructed on the artifact), deletes
\* the artifact if it exists and returns 0.
cmd_reset(w0, confirm) ==
    IF ~confirm THEN [code |-> 1, w |-> w0]
    ELSE LET w == SafetyManager(w0.disk, w0.now) IN
         [code |-> 0,
          w |-> IF w.disk.kind # "missing"
                THEN Event([w EXCEPT !.disk = MissingFile], "unlink")
                ELSE w]

\* A process runs "cli.py reset", with or without --confirm.
Reset ==
    /\ steps < MaxLoadSteps
    /\ \E confirm \in BOOLEAN :
        LET r == cmd_reset(Here, confirm)
        IN Commit(r.w, Call("reset", [confirm |-> confirm, code |-> r.code], r.w))

LoadRecordRequest ==
    /\ steps < MaxLoadSteps
    /\ \E a \in RecordCalls :
        LET w == record_request(Here, a)
        IN Commit(w, Call("record_request", a, w))

NextLoad ==
    \/ LoadAdvance
    \/ Construct
    \/ LoadRecordRequest
    \/ Reset

SpecLoad == InitLoad /\ [][NextLoad]_vars

(***************************************************************************)
(* The state machine of the workflows on an artifact that cannot always be *)
(* written                                                                 *)
(***************************************************************************)
\* No save raises; one save raises, the k-th; every save raises.
LastSave == 5
SaveSchedules ==
    {SaveSchedule(1, 0, "kept")}
        \cup {SaveSchedule(k, k, leaves) : k \in 1..LastSave, leaves \in SaveLeaves}
        \cup {SaveSchedule(1, LastSave + 2, leaves) : leaves \in SaveLeaves}

FaultRemixProject ==
    /\ steps < MaxFaultSteps
    /\ \E project_id \in FlowProjectIds, schedule \in SaveSchedules :
       \E o \in RemixOutcomes(project_id) :
        LET r == remix_project_saving(Here, project_id, TRUE, NoText, o, schedule, 1)
        IN Commit(r.w, Call("remix_project",
                            [returned |-> "result", success |-> r.result.success,
                             new_project_id |-> r.result.project_id,
                             error |-> r.result.error, schedule |-> schedule], r.w))

FaultCreateRemix ==
    /\ steps < MaxFaultSteps
    /\ \E source_project_id \in FlowProjectIds, schedule \in SaveSchedules,
          o1 \in GetOutcomes :
       \E o2 \in RemixOutcomes(source_project_id) :
        LET r == create_remix_saving(Here, source_project_id, TRUE, NoText, o1, o2, schedule)
        IN Commit(r.w, Call("create_remix",
                            [returned |-> r.returned, success |-> r.success,
                             new_project_id |-> r.new_project_id,
                             error |-> r.error, schedule |-> schedule], r.w))

FaultUiRemix ==
    /\ steps < MaxFaultSteps
    /\ \E project_id \in FlowProjectIds, schedule \in SaveSchedules :
       \E uo \in UiOutcomes(project_id) :
        LET r == ui_remix_saving(Here, project_id, TRUE, NoText, uo, schedule)
        IN Commit(r.w, Call("ui_remix",
                            [returned |-> r.returned, success |-> r.success,
                             new_project_id |-> r.new_project_id,
                             error |-> r.error, schedule |-> schedule], r.w))

NextFault ==
    \/ FaultRemixProject
    \/ FaultCreateRemix
    \/ FaultUiRemix

SpecFault == Init /\ [][NextFault]_vars

(***************************************************************************)
(* The state machine of two writers: the SafetyManagers of two processes,  *)
(* constructed on the same artifact, each recording on its own state and   *)
(* saving it; a process runs between any two file operations of the other  *)
(***************************************************************************)
\* The world of an instance.
WorldOf(instance) == World(IF instance = "first" THEN state ELSE other, disk, now)

\* The number of _save_state calls among the events of a call.
Saves(trace) == Cardinality({k \in DOMAIN trace : trace[k].e = "save"})

\* An instance starts a call that, taken alone, ends in w: what the call does
\* to the instance's state is done; the saves of the call are to be made.
CommitOf(instance, w, l) ==
    /\ state' = IF instance = "first" THEN w.state ELSE state
    /\ other' = IF instance = "second" THEN w.state ELSE other
    /\ disk' = disk
    /\ now' = w.now
    /\ last' = l
    /\ steps' = steps + 1
    /\ saving' = [saving EXCEPT ![instance] = Saving(Saves(w.trace))]

TwoRecordRequest ==
    /\ steps < MaxTwoSteps
    /\ \E instance \in Instances, a \in RecordCalls :
        /\ saving[instance] = Idle
        /\ LET w == record_request(WorldOf(instance), a)
           IN CommitOf(instance, w, Call("record_request", [instance |-> instance], w))

TwoRecordRemixSuccess ==
    /\ steps < MaxTwoSteps
    /\ \E instance \in Instances, source_project_id \in ProjectIds :
        /\ saving[instance] = Idle
        /\ LET w == record_remix_success(WorldOf(instance), source_project_id,
                                         IF instance = "first" THEN "N1" ELSE "N2")
           IN CommitOf(instance, w,
                       Call("record_remix_success",
                            [instance |-> instance, source_project_id |-> source_project_id],
                            w))

\* An instance is constructed anew on the artifact as it is at that moment.
TwoRestart ==
    /\ steps < MaxTwoSteps
    /\ \E instance \in Instances :
        /\ saving[instance] = Idle
        /\ LET w == SafetyManager(disk, now)
           IN CommitOf(instance, w, Call("restart", [instance |-> instance], w))

\* A write that can leave a text that is no JSON whatever was under it.
written_torn(clean, text) == {text, CorruptFile}

\* What a write leaves in the artifact: the text, whole, when the artifact
\* was empty under it; when another process wrote a text since the artifact
\* was opened, the text laid over the other from its start, which is the
\* text, whole, or (the other text being longer) a text that is no JSON.
written(clean, text) == IF clean THEN {text} ELSE {text, CorruptFile}

\* _save_state, first half: write_text opens the artifact, which empties it;
\* a process that has it open finds it empty under its coming write.
TwoOpen ==
    \E instance \in Instances :
        /\ saving[instance].at = "saving"
        /\ disk' = CorruptFile
        /\ saving' = [j \in Instances |->
                         IF j = instance THEN Opened(saving[j].saves - 1)
                         ELSE IF saving[j].at = "opened"
                              THEN [saving[j] EXCEPT !.clean = TRUE]
                              ELSE saving[j]]
        /\ last' = Call("save_opened", [instance |-> instance],
                        Event(WorldOf(instance), "open"))
        /\ UNCHANGED <<state, other, now, steps>>

\* _save_state, second half: write_text writes the text of the instance's
\* state and closes the artifact.
TwoWrite ==
    \E instance \in Instances :
        /\ saving[instance].at = "opened"
        /\ disk' \in written(saving[instance].clean,
                              json_dumps(to_dict(WorldOf(instance).state)))
        /\ saving' = [j \in Instances |->
                         IF j = instance THEN Saving(saving[j].saves)
                         ELSE IF saving[j].at = "opened"
                              THEN [saving[j] EXCEPT !.clean = FALSE]
                              ELSE saving[j]]
        /\ last' = Call("save_written", [instance |-> instance],
                        Event(WorldOf(instance), "write"))
        /\ UNCHANGED <<state, other, now, steps>>

NextTwo ==
    \/ TwoRecordRequest
    \/ TwoRecordRemixSuccess
    \/ TwoRestart
    \/ TwoOpen
    \/ TwoWrite

SpecTwo == Init /\ [][NextTwo]_vars

(***************************************************************************)
(* Properties                                                              *)
(***************************************************************************)
HasEvent(trace, e) == \E i \in DOMAIN trace : trace[i].e = e

BreakerReason == "Circuit breaker active"
DailyReason == "Daily remix limit reached (" \o ToString(MAX_REMIXES_PER_DAY) \o ")"

\* Every way pre_operation_check can be called.
CheckInputs ==
    UNION {{[operation |-> op, project_id |-> p, skip_confirmation |-> sk, answer |-> an] :
               op \in Operations, p \in ProjectIds \cup {NoProject}, an \in AnswersFor(sk)} :
           sk \in BOOLEAN}

\* The result of pre_operation_check called now with input i.
CheckNow(i) ==
    pre_operation_check(Here, i.operation, i.project_id, i.skip_confirmation, i.answer)

\* C1: the failure record that brings consecutive_failures to 3 sets
\* circuit_breaker_until to the time of that failure plus 15 minutes, and
\* while the clock is strictly before circuit_breaker_until every
\* pre_operation_check, whatever its arguments, returns allowed = false with
\* the circuit-breaker reason.
C1_TripsAndDenies ==
    /\ (last.action = "record_request" /\ ~last.what.success
            /\ state.consecutive_failures = MAX_CONSECUTIVE_FAILURES)
        => /\ state.circuit_breaker_until # None
           /\ fromisoformat(state.circuit_breaker_until[1]) = now + Seconds(15 * 60)
           /\ state.last_request_time = Some(isoformat(now))
    /\ Tripped(state, now)
        => \A i \in CheckInputs :
              /\ ~CheckNow(i).allowed
              /\ CheckNow(i).reason = BreakerReason

\* C1 witness: on a fresh state three failures were recorded and the
\* pre-check that followed was denied by the breaker.
C1_Witness ==
    /\ last.action = "pre_operation_check"
    /\ ~last.what.allowed /\ last.what.reason = BreakerReason
    /\ state.requests_today = 3 /\ state.consecutive_failures = 3
    /\ Len(state.request_log) = 3
    /\ now < fromisoformat(state.circuit_breaker_until[1])

\* C2: a pre_operation_check evaluated at or after circuit_breaker_until
\* clears circuit_breaker_until, sets consecutive_failures to 0, persists the
\* state and is not denied by the breaker, whatever its arguments.
C2_ReopensFully ==
    (state.circuit_breaker_until # None /\ ~Tripped(state, now))
    => \A i \in CheckInputs :
          LET r == CheckNow(i) IN
          /\ r.w.state.circuit_breaker_until = None
          /\ r.w.state.consecutive_failures = 0
          /\ HasEvent(r.w.trace, "save")
          /\ r.w.disk = json_dumps(to_dict(r.w.state))
          /\ r.reason # BreakerReason

\* C2 witness: a pre-check has just reopened a breaker whose cooldown was over.
C2_Witness ==
    /\ last.action = "pre_operation_check"
    /\ HasEvent(last.trace, "save")
    /\ state.circuit_breaker_until = None
    /\ state.consecutive_failures = 0
    /\ \E k \in DOMAIN state.request_log : ~state.request_log[k].success

\* The answer of check_idempotency("remix", P) on a state.
Idem(s, P) == check_idempotency(s, "remix", P)

\* C3: for every source id P, check_idempotency("remix", P) answers
\* (is_new = true, none) until a success is recorded for P; the call
\* record_remix_success(P, N) makes it answer (is_new = false, N); no other
\* call (record_request, a reload of the artifact, a daily rollover, a
\* pre-check, the passing of time) changes its answer; and while it answers
\* (false, N), every pre_operation_check("remix", P) made with the breaker
\* closed and remixes_today below the daily limit is denied with the reason
\* "Already remixed: N".
C3_Idempotency ==
    /\ \A P \in ProjectIds : Idem(state, P) = [is_new |-> TRUE, existing |-> None]
    /\ [][\A P \in ProjectIds :
            IF last'.action = "record_remix_success" /\ last'.what.source_project_id = P
            THEN Idem(state', P) = [is_new |-> FALSE,
                                    existing |-> Some(last'.what.new_project_id)]
            ELSE Idem(state', P) = Idem(state, P)]_vars
    /\ [](\A P \in ProjectIds :
            (~Idem(state, P).is_new /\ ~Tripped(state, now)
                /\ state.remixes_today < 20)
            => \A sk \in BOOLEAN, an \in Answers :
                  LET r == pre_operation_check(Here, "remix", P, sk, an) IN
                  /\ ~r.allowed
                  /\ r.reason = "Already remixed: " \o Idem(state, P).existing[1])

\* C3 witness: P1 was recorded as remixed into N1, a request was recorded,
\* and a pre-check for P1 was denied as already remixed.
C3_Witness ==
    /\ last.action = "pre_operation_check"
    /\ last.what.reason = "Already remixed: N1"
    /\ Idem(state, "P1") = [is_new |-> FALSE, existing |-> Some("N1")]
    /\ Idem(state, "P2").is_new
    /\ state.requests_today >= 1

\* C6: with the breaker closed, a pre_operation_check for "remix" is denied
\* with the daily-limit reason whenever remixes_today >= 20; it is never
\* denied with that reason when remixes_today <= 19; and a check for another
\* operation kind is never denied with that reason.
C6_QuotaBoundary ==
    ~Tripped(state, now)
    => \A i \in CheckInputs :
          LET r == CheckNow(i) IN
          /\ (i.operation = "remix" /\ state.remixes_today >= 20)
                => (~r.allowed /\ r.reason = DailyReason)
          /\ (i.operation # "remix" \/ state.remixes_today <= 19)
                => r.reason # DailyReason

\* C6 witness: the twentieth remix of the day was recorded and the pre-check
\* for another remix was denied by the daily limit.
C6_Witness ==
    /\ last.action = "pre_operation_check"
    /\ ~last.what.allowed /\ last.what.reason = DailyReason
    /\ state.remixes_today = 20
    /\ ~Tripped(state, now)

\* C7: when a SafetyManager is constructed on an artifact whose
\* last_reset_date differs from today, requests_today and remixes_today
\* become 0, request_log becomes empty, last_reset_date becomes today and the
\* result is persisted, while remix_history, consecutive_failures,
\* circuit_breaker_until and last_request_time are those of the artifact;
\* when last_reset_date is today the state is the artifact's and the artifact
\* is not rewritten.
C7_RolloverOnLoad ==
    [][(last'.action = "restart" /\ disk.kind = "json")
       => LET old == disk.object
              today == "D" \o ToString(now' \div (86400 * 1000))
          IN /\ state'.remix_history = old["remix_history"]
             /\ state'.consecutive_failures = old["consecutive_failures"]
             /\ state'.circuit_breaker_until = old["circuit_breaker_until"]
             /\ state'.last_request_time = old["last_request_time"]
             /\ state'.last_reset_date = today
             /\ IF old["last_reset_date"] # today
                THEN /\ state'.requests_today = 0
                     /\ state'.remixes_today = 0
                     /\ state'.request_log = <<>>
                     /\ disk' = json_dumps(to_dict(state'))
                     /\ HasEvent(last'.trace, "save")
                ELSE /\ state'.requests_today = old["requests_today"]
                     /\ state'.remixes_today = old["remixes_today"]
                     /\ state'.request_log = old["request_log"]
                     /\ disk' = disk
                     /\ ~HasEvent(last'.trace, "save")]_vars

\* C7 witness: the session with 99 requests and 19 remixes was reloaded after
\* midnight: the counters and the log are reset, the 19 remixes are remembered.
C7_Witness ==
    /\ last.action = "restart"
    /\ HasEvent(last.trace, "save")
    /\ state.requests_today = 0 /\ state.remixes_today = 0 /\ state.request_log = <<>>
    /\ Cardinality(DOMAIN state.remix_history) = 19
    /\ state.last_request_time # None

\* C9: at every moment between two calls the artifact holds the in-memory
\* state field for field, so that a SafetyManager constructed on it on the
\* same calendar day has a state equal to the in-memory one.
C9_PersistedEqualsMemory ==
    /\ disk.kind = "json"
    /\ DOMAIN disk.object = SafetyStateFields
    /\ disk.object["requests_today"] = state.requests_today
    /\ disk.object["remixes_today"] = state.remixes_today
    /\ disk.object["last_request_time"] = state.last_request_time
    /\ disk.object["consecutive_failures"] = state.consecutive_failures
    /\ disk.object["circuit_breaker_until"] = state.circuit_breaker_until
    /\ disk.object["last_reset_date"] = state.last_reset_date
    /\ disk.object["request_log"] = state.request_log
    /\ disk.object["remix_history"] = state.remix_history
    /\ state.last_reset_date = strftime_date(now)
        => SafetyManager(disk, now).state = state

\* C9 witness: a remix success has just been recorded, after a request, on
\* the day of the last reset.
C9_Witness ==
    /\ last.action = "record_remix_success"
    /\ HasEvent(last.trace, "save")
    /\ "P1" \in DOMAIN state.remix_history
    /\ state.requests_today >= 1
    /\ state.last_reset_date = strftime_date(now)

\* C10: a record_request call appends one entry, made of its arguments and
\* the time, to the audit log (which then keeps its last 100 entries), adds 1
\* to requests_today, sets last_request_time to now, sets
\* consecutive_failures to 0 on success and adds 1 to it on failure (setting
\* circuit_breaker_until to now + 15 minutes when the result is >= 3),
\* persists, and leaves remixes_today, remix_history and last_reset_date
\* unchanged.
C10_RecordRequest ==
    [][last'.action = "record_request"
       => LET a == last'.what
              entry == [timestamp |-> isoformat(now'), operation |-> a.operation,
                        endpoint |-> a.endpoint, success |-> a.success,
                        error |-> a.error, response_code |-> a.response_code]
              log == state.request_log
          IN /\ IF Len(log) < 100
                THEN state'.request_log = Append(log, entry)
                ELSE state'.request_log = Append(Tail(log), entry)
             /\ state'.requests_today = state.requests_today + 1
             /\ state'.last_request_time = Some(isoformat(now'))
             /\ a.success => state'.consecutive_failures = 0
             /\ ~a.success
                  => /\ state'.consecutive_failures = state.consecutive_failures + 1
                     /\ state'.consecutive_failures >= 3
                          => state'.circuit_breaker_until = Some(isoformat(now' + Seconds(15 * 60)))
             /\ disk' = json_dumps(to_dict(state'))
             /\ state'.remixes_today = state.remixes_today
             /\ state'.remix_history = state.remix_history
             /\ state'.last_reset_date = state.last_reset_date]_vars

\* C10 witness: a failure was recorded on a full log and tripped the breaker.
C10_Witness ==
    /\ last.action = "record_request"
    /\ ~last.what.success
    /\ state.requests_today = 102
    /\ Len(state.request_log) = 100
    /\ state.consecutive_failures = 3
    /\ state.circuit_breaker_until # None

\* The transport and browser calls among the events of a call.
PhysicalCalls(trace) == {i \in DOMAIN trace : trace[i].e \in {"transport", "ui"}}

\* C4: a remix workflow (create_remix, remix_project, ui_remix) whose
\* pre-operation check denies issues no transport or browser call in that
\* invocation.
C4_DeniedIssuesNoCall ==
    (/\ last.action \in {"create_remix", "remix_project", "ui_remix"}
     /\ \/ last.what.returned = "None"
        \/ IsBlocked(last.what.error))
    => PhysicalCalls(last.trace) = {}

\* C5: no transport or browser call is issued at a time when the breaker is
\* tripped.
C5_NoCallWhileTripped ==
    \A i \in PhysicalCalls(last.trace) : ~last.trace[i].tripped

\* C8: every pre_operation_check first brings the daily counters to the
\* current calendar date, so after a check last_reset_date is today and a
\* daily-limit denial is due to 20 remixes counted today.
C8_RolloverBeforeCheck ==
    last.action = "pre_operation_check"
    => state.last_reset_date = "D" \o ToString(now \div (86400 * 1000))

\* The record_request calls of a trace made after event i and before event j.
RecordsBetween(trace, i, j) ==
    {k \in DOMAIN trace : i < k /\ k < j /\ trace[k].e = "record_request"}

\* The first transport or browser call of a trace after event i (the end of
\* the trace when there is none).
NextPhysical(trace, i) ==
    IF \E j \in PhysicalCalls(trace) : j > i
    THEN CHOOSE j \in PhysicalCalls(trace) :
            j > i /\ \A k \in PhysicalCalls(trace) : k > i => j <= k
    ELSE Len(trace) + 1

\* C11: in every operation of the API client and in ui_remix, each transport
\* call and each browser attempt is followed by exactly one record_request
\* call before the next attempt or the return, whatever the outcome
\* (response, timeout, other error), and record_request is not called without
\* an attempt.
C11_OneRecordPerAttempt ==
    /\ \A i \in PhysicalCalls(last.trace) :
          Cardinality(RecordsBetween(last.trace, i, NextPhysical(last.trace, i))) = 1
    /\ RecordsBetween(last.trace, 0, NextPhysical(last.trace, 0)) = {}

\* The text of the error _request records and raises on a timeout.
RequestTimeoutText ==
    <<"R", "e", "q", "u", "e", "s", "t", " ", "t", "i", "m", "e", "o", "u", "t", " ",
      "a", "f", "t", "e", "r", " ", "3", "0", "s">>

\* C12: a remix workflow whose first attempt failed with an error that
\* should_retry classifies as retryable (a request timeout) makes another
\* attempt.
C12_RetryableIsRetried ==
    (/\ last.action \in {"remix_project", "create_remix"}
     /\ last.what.error = Some(Text("Remix request failed: ", "timeout"))
     /\ should_retry(0, Some(RequestTimeoutText)))
    => \E i, j \in PhysicalCalls(last.trace) :
          /\ i < j
          /\ RecordsBetween(last.trace, i, j) # {}
          /\ last.action = "remix_project" \/ Cardinality(PhysicalCalls(last.trace)) >= 3

\* The state of a SafetyManager constructed today without an artifact.
FreshState == [SafetyState EXCEPT !.last_reset_date = strftime_date(now)]

\* A workflow ended with P1 remixed into N1 and the given number of requests.
EndsRemixed(s, requests) ==
    /\ s.requests_today = requests
    /\ Len(s.request_log) = requests
    /\ s.remixes_today = 1
    /\ s.remix_history = [p \in {"P1"} |-> "N1"]
    /\ s.consecutive_failures = 0

\* C13: on a fresh state, a first remix of P1 with confirmation skipped whose
\* remix call succeeds at once with the new id N1 ends with remixes_today = 1,
\* remix_history = {P1: N1}, consecutive_failures = 0, and with
\* requests_today = 1 when made by remix_project or ui_remix, requests_today = 2
\* when made by create_remix, which also records its get_project request
\* (whatever that request's outcome).
C13_FirstRemix ==
    state = FreshState
    => \A an \in Answers :
          /\ remix_project(Here, "P1", TRUE, an, Response(200, TRUE, Some("N1"))).result.success
          /\ EndsRemixed(remix_project(Here, "P1", TRUE, an,
                                       Response(200, TRUE, Some("N1"))).w.state, 1)
          /\ ui_remix(Here, "P1", TRUE, an, TRUE, UiRedirected("N1", 0, FALSE)).success
          /\ EndsRemixed(ui_remix(Here, "P1", TRUE, an, TRUE, UiRedirected("N1", 0, FALSE)).w.state, 1)
          /\ \A o1 \in GetOutcomes :
                /\ create_remix(Here, "P1", TRUE, an, FALSE, o1,
                                Response(200, TRUE, Some("N1"))).success
                /\ EndsRemixed(create_remix(Here, "P1", TRUE, an, FALSE, o1,
                                            Response(200, TRUE, Some("N1"))).w.state, 2)

\* C13 witness: create_remix has remixed P1 into N1 on a fresh state.
C13_Witness ==
    /\ last.action = "create_remix"
    /\ last.what.success /\ last.what.new_project_id = Some("N1")
    /\ EndsRemixed(state, 2)
    /\ Cardinality(PhysicalCalls(last.trace)) = 2

\* C13 as stated: every first remix workflow, create_remix included, ends
\* with requests_today = 1.
C13_FirstRemixOneRequest ==
    state = FreshState
    => \A an \in Answers, o1 \in GetOutcomes :
          /\ EndsRemixed(remix_project(Here, "P1", TRUE, an,
                                       Response(200, TRUE, Some("N1"))).w.state, 1)
          /\ EndsRemixed(ui_remix(Here, "P1", TRUE, an, TRUE, UiRedirected("N1", 0, FALSE)).w.state, 1)
          /\ EndsRemixed(create_remix(Here, "P1", TRUE, an, FALSE, o1,
                                      Response(200, TRUE, Some("N1"))).w.state, 1)

\* The entry the j-th get_project request of a long session appends to the
\* log of the manager constructed on `file`: the first request is recorded
\* when its response arrives, each later one after the rate-limit wait and
\* the response.
SessionEntry(file, j) ==
    [timestamp |-> isoformat(wait_for_rate_limit(SafetyManager(file, StartTime)).now
                             + Seconds(ResponseSeconds)
                             + (j - 1) * Seconds(MIN_REQUEST_INTERVAL_SECONDS + ResponseSeconds)),
     operation |-> "get_project",
     endpoint |-> "/projects/P1",
     success |-> TRUE,
     error |-> None,
     response_code |-> Some(200)]

\* All the entries appended so far, the loaded ones first.
SessionEntries(file) ==
    SafetyManager(file, StartTime).state.request_log
        \o [j \in 1..steps |-> SessionEntry(file, j)]

\* C14: after any number n of recorded requests the audit log has at most 100
\* entries, and they are the most recent min(n, 100) entries appended, oldest
\* first.
C14_LogBounded ==
    /\ Len(state.request_log) <= 100
    /\ \E file \in Artifacts :
          LET all == SessionEntries(file)
              kept == IF Len(all) < 100 THEN Len(all) ELSE 100
          IN /\ Len(state.request_log) = kept
             /\ \A i \in 1..kept : state.request_log[i] = all[Len(all) - kept + i]

\* C14 witness: 105 requests were recorded on an empty log, which holds the
\* 6th to the 105th.
C14_Witness ==
    /\ state.requests_today = 105
    /\ Len(state.request_log) = 100
    /\ state.request_log[1] = SessionEntry(MissingFile, 6)
    /\ state.request_log[100] = SessionEntry(MissingFile, 105)

\* C15: a recorded success sets consecutive_failures to 0 and leaves
\* circuit_breaker_until as it is, tripped or not; circuit_breaker_until is
\* cleared only by a pre_operation_check evaluated at or after it; and while
\* the breaker is tripped with consecutive_failures = 0 every pre-check is
\* still denied by the breaker and changes nothing.
C15_SuccessKeepsCooldown ==
    /\ [][(last'.action = "record_request" /\ last'.what.success)
          => /\ state'.consecutive_failures = 0
             /\ state'.circuit_breaker_until = state.circuit_breaker_until]_vars
    /\ [][(state.circuit_breaker_until # None /\ state'.circuit_breaker_until = None)
          => /\ last'.action = "pre_operation_check"
             /\ now >= fromisoformat(state.circuit_breaker_until[1])]_vars
    /\ []((Tripped(state, now) /\ state.consecutive_failures = 0)
          => \A i \in CheckInputs :
                /\ ~CheckNow(i).allowed
                /\ CheckNow(i).reason = BreakerReason
                /\ CheckNow(i).w.state = state)

\* C15 witness: a success was recorded during the cooldown and the pre-check
\* that followed was denied by the breaker with consecutive_failures = 0.
C15_Witness ==
    /\ last.action = "pre_operation_check"
    /\ last.what.reason = BreakerReason
    /\ Tripped(state, now)
    /\ state.consecutive_failures = 0
    /\ state.request_log[Len(state.request_log)].success

\* The place of an event among the steps of pre_operation_check: the breaker
\* (which may reopen and persist), the rate-limit wait, the soft warning, the
\* confirmation prompt.
StepRank(e) ==
    CASE e = "pre_operation_check" -> 1
      [] e = "save" -> 2
      [] e = "sleep" -> 3
      [] e = "warn" -> 5
      [] e = "prompt" -> 6
      [] OTHER -> 0

\* C16: pre_operation_check runs its steps in the order breaker, rate-limit
\* wait, daily quota, idempotency, soft warning, confirmation, and returns at
\* the first denial: with the breaker active it neither waits, warns nor
\* prompts; a remix denied by the daily quota has waited for the rate limit
\* and is reported with the daily-limit reason even when its key is in
\* remix_history; a remix denied as already remixed is neither warned about
\* nor prompted for; and a prompt is issued only when no earlier step denied.
C16_FixedOrder ==
    \A i \in CheckInputs :
        LET r == CheckNow(i)
            remixed == ~check_idempotency(state, i.operation, i.project_id).is_new
        IN /\ \A a, b \in DOMAIN r.w.trace :
                 a < b => StepRank(r.w.trace[a].e) < StepRank(r.w.trace[b].e)
           /\ Tripped(state, now)
                => /\ r.reason = BreakerReason
                   /\ r.w.trace = Event(Here, "pre_operation_check").trace
                   /\ r.w.now = now
           /\ (~Tripped(state, now) /\ i.operation = "remix" /\ state.remixes_today >= 20)
                => /\ r.reason = DailyReason
                   /\ r.w.now = wait_for_rate_limit(Here).now
                   /\ ~HasEvent(r.w.trace, "warn") /\ ~HasEvent(r.w.trace, "prompt")
           /\ (~Tripped(state, now) /\ state.remixes_today < 20 /\ remixed)
                => /\ r.reason = "Already remixed: " \o state.remix_history[i.project_id]
                   /\ r.w.now = wait_for_rate_limit(Here).now
                   /\ ~HasEvent(r.w.trace, "warn") /\ ~HasEvent(r.w.trace, "prompt")
           /\ HasEvent(r.w.trace, "prompt")
                => /\ ~Tripped(state, now) /\ state.remixes_today < 20 /\ ~remixed
                   /\ r.allowed \/ r.reason = "User declined"

\* C16 witness: with 20 remixes today, P1 among the remixed sources and a
\* request made a second ago, a pre-check waited for the rate limit and was
\* denied by the daily limit.
C16_Witness ==
    /\ last.action = "pre_operation_check"
    /\ last.what.reason = DailyReason
    /\ HasEvent(last.trace, "sleep")
    /\ state.remixes_today = 20
    /\ "P1" \in DOMAIN state.remix_history

\* The prompt events of a trace.
Prompts(trace) == {k \in DOMAIN trace : trace[k].e = "prompt"}

\* C17: a pre_operation_check that passes the breaker, the daily quota and
\* the idempotency check prompts once when the operation is a remix and
\* skip_confirmation is false, and is then allowed exactly when the answer is
\* "yes" or "y" in any letter case, and otherwise denied with "User declined";
\* with skip_confirmation true, or for another operation, it does not prompt
\* and allows.
C17_Confirmation ==
    \A i \in CheckInputs :
        LET r == CheckNow(i) IN
        (/\ ~Tripped(state, now)
         /\ ~(i.operation = "remix" /\ state.remixes_today >= 20)
         /\ check_idempotency(state, i.operation, i.project_id).is_new)
        => IF i.operation = "remix" /\ ~i.skip_confirmation
           THEN /\ Cardinality(Prompts(r.w.trace)) = 1
                /\ r.allowed <=> i.answer \in {<<"y", "e", "s">>, <<"y">>, <<"Y", "E", "S">>,
                                               <<"Y">>, <<"Y", "e", "s">>}
                /\ ~r.allowed => r.reason = "User declined"
                /\ r.allowed => r.reason = ""
           ELSE /\ Prompts(r.w.trace) = {}
                /\ r.allowed
                /\ r.reason = ""

\* C17 witness: a remix pre-check prompted and the user declined.
C17_Witness ==
    /\ last.action = "pre_operation_check"
    /\ ~last.what.allowed /\ last.what.reason = "User declined"
    /\ Cardinality(Prompts(last.trace)) = 1
    /\ state.remixes_today < 20 /\ ~Tripped(state, now)

\* C18: wait_for_rate_limit changes neither the SafetyState nor the artifact;
\* with no last_request_time it returns at once; with less than 2 seconds
\* since last_request_time it sleeps for the remainder, so that it returns
\* exactly 2 seconds after last_request_time; otherwise it returns at once;
\* and on its return check_rate_limit does not deny for the minimum interval.
C18_WaitForRateLimit ==
    LET w == wait_for_rate_limit(Here) IN
    /\ w.state = state
    /\ w.disk = disk
    /\ state.last_request_time = None => (w.now = now /\ w.trace = <<>>)
    /\ state.last_request_time # None
         => LET last_time == fromisoformat(state.last_request_time[1]) IN
            /\ now - last_time < Seconds(2)
                 => (w.now = last_time + Seconds(2) /\ Len(w.trace) = 1 /\ w.trace[1].e = "sleep")
            /\ now - last_time >= Seconds(2) => (w.now = now /\ w.trace = <<>>)
            /\ w.now - last_time >= Seconds(2)
    /\ check_rate_limit(w).reason # "Rate limit: wait"

\* C18 witness: a pre-check made less than 2 seconds after a request slept
\* until 2 seconds had passed.
C18_Witness ==
    /\ last.action = "pre_operation_check"
    /\ \E k \in DOMAIN last.trace : last.trace[k].e = "sleep" /\ last.trace[k].t = now
    /\ state.last_request_time # None
    /\ now - fromisoformat(state.last_request_time[1]) = Seconds(2)

\* C19: no request is issued once requests_today has reached
\* MAX_REQUESTS_PER_HOUR, so a session of get_project requests never counts
\* more than 60 requests in a day.
C19_HourlyCeiling ==
    /\ \A k \in PhysicalCalls(last.trace) :
          last.trace[k].requests_today < MAX_REQUESTS_PER_HOUR
    /\ last.action = "get_project" => state.requests_today <= MAX_REQUESTS_PER_HOUR

\* The attempts of a trace: transport calls, browser remixes, and calls of a
\* function wrapped by safe_operation.
Attempts(trace) == {k \in DOMAIN trace : trace[k].e \in {"transport", "ui", "attempt"}}

\* C20: every attempt starts at least MIN_REQUEST_INTERVAL_SECONDS after the
\* last_request_time of that moment.
C20_MinimumSpacing ==
    \A k \in Attempts(last.trace) :
        \/ last.trace[k].last_request_time = None
        \/ last.trace[k].t - fromisoformat(last.trace[k].last_request_time[1])
              >= Seconds(MIN_REQUEST_INTERVAL_SECONDS)

\* Error texts with a non-retryable marker in them, and without.
ForbiddenText == <<"H", "T", "T", "P", " ", "4", "0", "3">>
NotFoundText == <<"4", "0", "4", " ", "N", "o", "t", " ", "F", "o", "u", "n", "d">>
AlreadyRemixedText ==
    <<"A", "l", "r", "e", "a", "d", "y", " ", "R", "e", "m", "i", "x", "e", "d", ":", " ", "N", "1">>
MarkedTexts ==
    {ForbiddenText, UnauthorizedText, NotFoundText, AlreadyRemixedText, SupabaseText,
     str_lower(UnauthorizedText)}
UnmarkedTexts == {TimeoutText, RequestTimeoutText, ServerErrorText, NoResultText, <<>>}

\* The attempt events of a trace, and the request_log entries a call that
\* made n attempts appended to the artifact.
AttemptEvents(trace) == {k \in DOMAIN trace : trace[k].e = "attempt"}
RetrySleeps(trace) == {k \in DOMAIN trace : trace[k].e = "retry_sleep"}
LoggedError(file, n, k) ==
    file.object["request_log"][Len(file.object["request_log"]) - n + k].error

\* C21: should_retry(attempt, error) is false whenever attempt >= 2, false
\* for any attempt when the lower-cased error text contains "403", "401",
\* "404", "already remixed" or "supabase", and true in every other case, a
\* missing error included; should_retry(2, "timeout") and
\* should_retry(0, "401 unauthorized") are false; and a call wrapped by
\* safe_operation sleeps for a retry after its k-th attempt (from 0) only when
\* k < 2 and the error recorded for that attempt has no marker.
C21_ShouldRetry ==
    /\ \A attempt \in 0..(MAX_RETRIES + 2) :
          /\ \A text \in MarkedTexts : ~should_retry(attempt, Some(text))
          /\ \A text \in UnmarkedTexts : should_retry(attempt, Some(text)) <=> attempt < 2
          /\ should_retry(attempt, None) <=> attempt < 2
    /\ ~should_retry(2, Some(TimeoutText))
    /\ ~should_retry(0, Some(str_lower(UnauthorizedText)))
    /\ last.action = "safe_operation"
         => LET n == Cardinality(AttemptEvents(last.trace)) IN
            /\ n <= MAX_RETRIES + 1
            /\ Cardinality(RetrySleeps(last.trace)) <= 2
            /\ \A k \in 1..n :
                  (\E j \in RetrySleeps(last.trace) :
                       Cardinality({a \in AttemptEvents(last.trace) : a < j}) = k)
                  => /\ k - 1 < 2
                     /\ LoggedError(disk, n, k) \notin {Some(text) : text \in MarkedTexts}

\* C21 witness: a wrapped call raised a timeout, was retried, raised
\* "Supabase down" and was not retried again.
C21_Witness ==
    /\ last.action = "safe_operation"
    /\ last.what.returned = "None"
    /\ Cardinality(AttemptEvents(last.trace)) = 2
    /\ Cardinality(RetrySleeps(last.trace)) = 1
    /\ LoggedError(disk, 2, 1) = Some(TimeoutText)
    /\ LoggedError(disk, 2, 2) = Some(SupabaseText)

\* The attempts get_retry_delay is asked about: the first ones, those around
\* the largest exponent of a double, and (in the property) the number of
\* attempts the last wrapped call made.
RetryAttempts == 0..8 \cup {DBL_MAX_EXP - 1, DBL_MAX_EXP, DBL_MAX_EXP + 1}

\* C22: get_retry_delay(attempt) returns min(2^attempt, 30) for every
\* attempt >= 0: 1, 2, 4, 8, 16 for the attempts 0 to 4 and 30 for every
\* attempt >= 5, non-decreasing in attempt and never above 30.
C22_RetryDelay ==
    \A attempt \in RetryAttempts \cup {Cardinality(AttemptEvents(last.trace))} :
        /\ ~get_retry_delay_raises(attempt)
        /\ attempt < 5 => get_retry_delay(attempt) = 2 ^ attempt
        /\ attempt >= 5 => get_retry_delay(attempt) = 30
        /\ attempt = 3 => get_retry_delay(attempt) = 8
        /\ get_retry_delay(attempt) <= 30
        /\ \A earlier \in RetryAttempts :
              earlier <= attempt => get_retry_delay(earlier) <= get_retry_delay(attempt)

\* The record_remix_success calls among the events of a call.
RemixRecords(trace) == {k \in DOMAIN trace : trace[k].e = "record_remix_success"}

\* C23: under the workflows (create_remix, remix_project, ui_remix, and the
\* other operations of the API client) no key of remix_history is removed and
\* the value of an existing key never changes, and record_remix_success is
\* called at most once per workflow and only for a source that is not in
\* remix_history: a remix of a source that is in it is blocked.
C23_HistoryAppendOnly ==
    [][/\ \A k \in DOMAIN state.remix_history :
              /\ k \in DOMAIN state'.remix_history
              /\ state'.remix_history[k] = state.remix_history[k]
       /\ Cardinality(RemixRecords(last'.trace)) <= 1
       /\ RemixRecords(last'.trace) # {}
            => \E p \in FlowProjectIds :
                  /\ p \notin DOMAIN state.remix_history
                  /\ DOMAIN state'.remix_history = DOMAIN state.remix_history \cup {p}]_vars

\* C24: over any sequence of gate operations, the clock not being set back,
\* last_request_time never moves earlier and never becomes absent: each
\* record_request sets it to the time of the call, which is not earlier than
\* its previous value, and no other operation (a pre-check, with its breaker
\* reopening; record_remix_success; the construction of a manager on the
\* artifact, with its daily rollover; the passing of time) changes it.
C24_LastRequestTimeMonotonic ==
    [][/\ last'.action = "record_request"
            => /\ state'.last_request_time = Some(isoformat(now'))
               /\ state.last_request_time # None
                    => fromisoformat(state'.last_request_time[1])
                          >= fromisoformat(state.last_request_time[1])
       /\ last'.action # "record_request"
            => state'.last_request_time = state.last_request_time]_vars

\* C24 witness: a second request was recorded later than the first, after a
\* manager was constructed on the artifact past midnight.
C24_Witness ==
    /\ last.action = "record_request"
    /\ state.requests_today = 1
    /\ state.last_reset_date = strftime_date(StartTime + MillisPerDay)
    /\ state.last_request_time = Some(isoformat(now))
    /\ disk.object["last_request_time"] = state.last_request_time

\* What an artifact gives for a field: its value, the default when the
\* object has no such key.
FileValue(file, k) == IF k \in DOMAIN file.object THEN file.object[k] ELSE SafetyState[k]

\* The artifact is a JSON object all of whose keys are fields of SafetyState.
LoadsAsObject(file) ==
    /\ file.kind = "json"
    /\ \A k \in DOMAIN file.object :
          k \in {"requests_today", "remixes_today", "last_request_time",
                 "consecutive_failures", "circuit_breaker_until", "last_reset_date",
                 "request_log", "remix_history"}

\* The state constructed on an artifact that falls back to the defaults.
DefaultToday(t) ==
    [requests_today |-> 0, remixes_today |-> 0, last_request_time |-> <<>>,
     consecutive_failures |-> 0, circuit_breaker_until |-> <<>>,
     last_reset_date |-> "D" \o ToString(t \div (86400 * 1000)),
     request_log |-> <<>>, remix_history |-> [p \in {} |-> ""]]

\* C25: constructing a SafetyManager on an artifact that is missing, is not
\* JSON, is JSON but not an object, or is an object with a key that is no
\* field of SafetyState yields the default state with last_reset_date set to
\* today, and persists it; an object with only some of the fields (all of
\* them known) is loaded, each absent field taking its default, and then
\* goes through the daily rollover like any loaded state.
C25_LoadFallback ==
    [][last'.action = "construct"
       => LET file == last'.what.file
              today == "D" \o ToString(now' \div (86400 * 1000))
          IN IF ~LoadsAsObject(file)
             THEN /\ state' = DefaultToday(now')
                  /\ disk' = json_dumps(to_dict(state'))
             ELSE /\ \A k \in {"last_request_time", "consecutive_failures",
                                 "circuit_breaker_until", "remix_history"} :
                        state'[k] = FileValue(file, k)
                  /\ state'.last_reset_date = today
                  /\ IF FileValue(file, "last_reset_date") = today
                     THEN /\ \A k \in {"requests_today", "remixes_today", "request_log"} :
                                state'[k] = FileValue(file, k)
                          /\ disk' = file
                     ELSE /\ state'.requests_today = 0
                          /\ state'.remixes_today = 0
                          /\ state'.request_log = <<>>
                          /\ disk' = json_dumps(to_dict(state'))]_vars

\* C25 witness: after requests were recorded, a process found an artifact
\* with an unknown key and started from the defaults, which it persisted.
C25_Witness ==
    /\ last.action = "construct"
    /\ last.what.file = UnknownKeyFile
    /\ steps >= 2
    /\ state = DefaultToday(now)
    /\ disk = json_dumps(to_dict(state))
    /\ HasEvent(last.trace, "save")

\* C25 as stated: every artifact that is not an object with exactly the
\* fields of SafetyState yields the default state with last_reset_date today.
C25_LoadFallbackAnyMismatch ==
    [][(last'.action = "construct"
          /\ ~(last'.what.file.kind = "json"
                /\ DOMAIN last'.what.file.object = SafetyStateFields))
       => state' = DefaultToday(now')]_vars

\* C26: when a save raises during a record_request or a
\* record_remix_success of a remix workflow (remix_project, create_remix,
\* ui_remix), that workflow does not report success=true.
C26_SaveFailureIsFatal ==
    (/\ last.action \in {"remix_project", "create_remix", "ui_remix"}
     /\ HasEvent(last.trace, "save_raised"))
    => ~last.what.success

\* C27: "reset" without the confirm flag leaves the artifact and the state
\* untouched and returns a non-zero code; with the flag it leaves no artifact
\* and returns 0, and a SafetyManager constructed afterwards has the default
\* state of the day, so that check_idempotency reports every source as new,
\* those remixed before included; and nothing else removes the artifact.
C27_ResetNeedsConfirm ==
    [][/\ last'.action = "reset"
            => IF ~last'.what.confirm
               THEN /\ disk' = disk /\ state' = state
                    /\ last'.what.code # 0
               ELSE /\ disk'.kind = "missing"
                    /\ last'.what.code = 0
                    /\ SafetyManager(disk', now').state = DefaultToday(now')
                    /\ \A P \in ProjectIds \cup DOMAIN state.remix_history
                                \cup DOMAIN state'.remix_history :
                          check_idempotency(SafetyManager(disk', now').state, "remix", P)
                              = [is_new |-> TRUE, existing |-> <<>>]
       /\ (disk.kind # "missing" /\ disk'.kind = "missing")
            => (last'.action = "reset" /\ last'.what.confirm)]_vars

\* C27 witness: a confirmed reset has deleted an artifact in which P1 was
\* recorded as remixed into N1.
C27_Witness ==
    /\ last.action = "reset"
    /\ last.what.confirm /\ last.what.code = 0
    /\ disk.kind = "missing"
    /\ HasEvent(last.trace, "unlink")
    /\ check_idempotency(state, "remix", "P1") = [is_new |-> FALSE, existing |-> <<"N1">>]

\* The state of the instance that acted last, before and after its step.
WriterBefore == IF last'.what.instance = "first" THEN state ELSE other
WriterAfter == IF last'.what.instance = "first" THEN state' ELSE other'

\* C28: a record call started while the artifact holds the caller's state
\* leaves in the caller's state the artifact's requests_today, remixes_today
\* and remix_history grown by what the call recorded; each write of a save
\* under which no other process wrote puts the writer's state, whole, over
\* the artifact, whatever another instance had saved before (the last writer
\* wins), and only a write of the other instance comes under a write: so a
\* single instance loses no update.  And whenever no save is under way and
\* the artifact is a JSON text, it holds the state of one of the instances.
C28_LastWriterWins ==
    /\ [][(last'.action \in {"record_request", "record_remix_success"}
             /\ disk = json_dumps(to_dict(WriterBefore)))
           => IF last'.action = "record_request"
              THEN /\ WriterAfter.requests_today = disk.object["requests_today"] + 1
                   /\ WriterAfter.remixes_today = disk.object["remixes_today"]
                   /\ WriterAfter.remix_history = disk.object["remix_history"]
              ELSE /\ WriterAfter.requests_today = disk.object["requests_today"]
                   /\ WriterAfter.remixes_today = disk.object["remixes_today"] + 1
                   /\ DOMAIN WriterAfter.remix_history
                         = DOMAIN disk.object["remix_history"]
                              \cup {last'.what.source_project_id}]_vars
    /\ [][(/\ last'.action = "save_written"
            /\ saving[last'.what.instance].at = "opened"
            /\ saving[last'.what.instance].clean)
           => /\ disk' = json_dumps(to_dict(WriterAfter))
              /\ WriterAfter = WriterBefore]_vars
    /\ [][\A instance \in Instances :
             (saving[instance].clean /\ ~saving'[instance].clean)
             => (last'.action = "save_written" /\ last'.what.instance # instance)]_vars
    /\ []((saving["first"] = Idle /\ saving["second"] = Idle /\ disk.kind = "json")
           => (disk = json_dumps(to_dict(state)) \/ disk = json_dumps(to_dict(other))))

\* C28 witness: two instances loaded the same artifact; the first recorded a
\* remix of P1 and saved, then the second recorded a request and saved: two
\* calls were recorded, and the artifact counts no remix and does not know P1.
C28_Witness ==
    /\ steps = 2
    /\ saving["first"] = Idle /\ saving["second"] = Idle
    /\ last.action = "save_written" /\ last.what.instance = "second"
    /\ state.remixes_today = other.remixes_today + 1
    /\ "P1" \in DOMAIN state.remix_history
    /\ other.requests_today = state.requests_today + 1
    /\ disk = json_dumps(to_dict(other))
    /\ disk.object["remixes_today"] = state.remixes_today - 1
    /\ "P1" \notin DOMAIN disk.object["remix_history"]

\* The last transport or browser call of a trace before event k (0 when
\* there is none).
LastPhysicalBefore(trace, k) ==
    IF \E p \in PhysicalCalls(trace) : p < k
    THEN CHOOSE p \in PhysicalCalls(trace) :
            p < k /\ \A q \in PhysicalCalls(trace) : q < k => q <= p
    ELSE 0

\* C29: in every remix workflow, a record_remix_success call comes after the
\* pre-operation check, after the transport or browser call of the attempt,
\* and after the record_request of that attempt.
C29_RecordThenSuccess ==
    last.action \in {"remix_project", "create_remix", "ui_remix"}
    => \A k \in RemixRecords(last.trace) :
          /\ \E c \in DOMAIN last.trace :
                c < LastPhysicalBefore(last.trace, k)
                    /\ last.trace[c].e = "pre_operation_check"
          /\ RecordsBetween(last.trace, LastPhysicalBefore(last.trace, k), k) # {}

\* The breaker was tripped and its cooldown has elapsed.
CooldownElapsed ==
    /\ state.circuit_breaker_until # None
    /\ fromisoformat(state.circuit_breaker_until[1]) <= now

\* The step trips the breaker: it sets circuit_breaker_until to a new instant.
TripsBreaker ==
    /\ state'.circuit_breaker_until # None
    /\ state'.circuit_breaker_until # state.circuit_breaker_until

\* The last n entries of the log are failures recorded at or after time t.
LastFailuresSince(log, n, t) ==
    /\ Len(log) >= n
    /\ \A i \in (Len(log) - n + 1)..Len(log) :
          ~log[i].success /\ fromisoformat(log[i].timestamp) >= t

\* C30: once the cooldown of a tripped breaker has elapsed, a step trips the
\* breaker again only when MAX_CONSECUTIVE_FAILURES consecutive failures have
\* been recorded since the cooldown ended, whether or not a pre-operation
\* check ran in between.
C30_ReTripNeedsThreeFailures ==
    [][(CooldownElapsed /\ TripsBreaker)
        => LastFailuresSince(state'.request_log, MAX_CONSECUTIVE_FAILURES,
                             fromisoformat(state.circuit_breaker_until[1]))]_vars

\* The step is a remix workflow called directly that reports success.
ReportsSuccess ==
    /\ last'.action \in {"remix_project", "ui_remix"}
    /\ last'.what.returned = "result"
    /\ last'.what.success

\* C31: when remix_project or ui_remix reports success for a source, the
\* ledger holds it: remixes_today grew by exactly one and remix_history maps
\* the source to the reported new id; and record_remix_success is called only
\* in a workflow that reports success.
C31_SuccessIsRecorded ==
    [][/\ (ReportsSuccess
            => /\ state'.remixes_today = state.remixes_today + 1
               /\ last'.what.new_project_id # None
               /\ \E p \in FlowProjectIds :
                     state'.remix_history =
                         [q \in DOMAIN state.remix_history \cup {p} |->
                             IF q = p THEN last'.what.new_project_id[1]
                             ELSE state.remix_history[q]])
        /\ ((last'.action \in {"remix_project", "ui_remix"}
                /\ RemixRecords(last'.trace) # {})
            => ReportsSuccess)]_vars

\* The fields pre_operation_check never writes.
LedgerFields ==
    {"requests_today", "remixes_today", "last_request_time", "last_reset_date",
     "request_log", "remix_history"}

\* C32: pre_operation_check, allowed or denied, leaves requests_today,
\* remixes_today, last_request_time, last_reset_date, request_log and
\* remix_history as they were, in memory and in the state file; it changes
\* circuit_breaker_until and consecutive_failures only by reopening a breaker
\* whose cooldown has elapsed.
C32_PreCheckFrame ==
    [][last'.action = "pre_operation_check"
        => /\ \A f \in LedgerFields : state'[f] = state[f]
           /\ (disk' # disk
                 => /\ disk'.kind = "json"
                    /\ \A f \in LedgerFields : disk'.object[f] = state[f])
           /\ (state'.circuit_breaker_until # state.circuit_breaker_until
                 \/ state'.consecutive_failures # state.consecutive_failures)
               => /\ CooldownElapsed
                  /\ state'.circuit_breaker_until = None
                  /\ state'.consecutive_failures = 0]_vars

\* A pre-check has just reopened a breaker whose cooldown had elapsed, with a
\* request on the log.
C32_Witness ==
    /\ last.action = "pre_operation_check"
    /\ HasEvent(last.trace, "save")
    /\ state.circuit_breaker_until = None
    /\ state.consecutive_failures = 0
    /\ state.requests_today > 0
    /\ state.request_log # <<>>
    /\ state.last_request_time # None

\* min(a, b) of two numbers.
Min(a, b) == IF a < b THEN a ELSE b

\* C33: in every state reached by record_request, record_remix_success,
\* pre_operation_check and the daily rollover, the audit log has
\* min(requests_today, 100) entries, in memory and in the state file.
C33_LogLengthIsRequestCount ==
    /\ Len(state.request_log) = Min(state.requests_today, LOG_LIMIT)
    /\ disk.kind = "json"
        => Len(disk.object.request_log) = Min(disk.object.requests_today, LOG_LIMIT)

\* C33 witness: the counter has gone past the cap of the log.
C33_Witness ==
    /\ last.action = "record_request"
    /\ state.requests_today = LOG_LIMIT + 1
    /\ Len(state.request_log) = LOG_LIMIT

\* C34: in a process whose remixes all go through remix_project or ui_remix,
\* remixes_today never exceeds MAX_REMIXES_PER_DAY, and when a workflow has
\* returned remixes_today is at most requests_today.
C34_RemixesBounded ==
    /\ state.remixes_today <= MAX_REMIXES_PER_DAY
    /\ state.remixes_today <= state.requests_today

\* C34 witness: the day's last remix was recorded and the workflow called for
\* another project was denied before any transport or browser call.
C34_Witness ==
    /\ last.action \in {"remix_project", "ui_remix"}
    /\ state.remixes_today = MAX_REMIXES_PER_DAY
    /\ PhysicalCalls(last.trace) = {}
    /\ \E p \in ProjectIds : p \notin DOMAIN state.remix_history

\* The pre-operation check the wrapper of the step's safe_operation call made,
\* on a manager of its own constructed from the state file.
WrapperCheck ==
    pre_operation_check(SafetyManager(disk, now), "remix", last'.what.project_id,
                        last'.what.skip_confirmation, last'.what.answer)

\* Every call of the wrapped function raises an error that should_retry lets
\* through.
AlwaysRaisesRetryable(outcomes) ==
    \A i \in DOMAIN outcomes :
        outcomes[i].kind = "raised" /\ outcomes[i].error[1] \in UnmarkedTexts

\* C35: a call wrapped by safe_operation calls the function at most
\* MAX_RETRIES + 1 times and only after an allowed pre-check; when every call
\* raises a retryable error there are exactly 3 attempts, exactly 3 failures
\* are recorded, None is returned, and the breaker is left tripped
\* (consecutive_failures >= 3, circuit_breaker_until set to a later time),
\* whatever consecutive_failures was.
C35_RetriesBoundedAndTrip ==
    [][last'.action = "safe_operation"
        => LET n == Cardinality(AttemptEvents(last'.trace))
               before == WrapperCheck.w.state
               after == disk'.object
           IN /\ n <= MAX_RETRIES + 1
              /\ n > 0 => WrapperCheck.allowed
              /\ (WrapperCheck.allowed /\ AlwaysRaisesRetryable(last'.what.outcomes))
                  => /\ n = MAX_RETRIES + 1
                     /\ last'.what.returned = "None"
                     /\ after.requests_today = before.requests_today + 3
                     /\ after.consecutive_failures = before.consecutive_failures + 3
                     /\ LastFailuresSince(after.request_log, 3, now)
                     /\ after.consecutive_failures >= MAX_CONSECUTIVE_FAILURES
                     /\ after.circuit_breaker_until # None
                     /\ Tripped(after, now')]_vars

\* C35 witness: a wrapped call whose three attempts all timed out has
\* returned, starting from two consecutive failures, and the state file has
\* the breaker tripped.
C35_Witness ==
    /\ last.action = "safe_operation"
    /\ AlwaysRaisesRetryable(last.what.outcomes)
    /\ Cardinality(AttemptEvents(last.trace)) = MAX_RETRIES + 1
    /\ disk.object.consecutive_failures = 5
    /\ disk.object.circuit_breaker_until # None

====
